---- MODULE Spec2Model ----
(***************************************************************************)
(* TsStoreX: the EnhancedStore dispatch pipeline (core/store.ts), the      *)
(* middleware chain (core/middleware.ts, utils/compose.ts) and the Store's *)
(* effect subscriptions.                                                   *)
(*                                                                         *)
(* dispatch is synchronous and re-entrant: rxjs Subject.next delivers to   *)
(* its observers inside the call, so an effect that maps an action to a    *)
(* follow-up action calls dispatch again while the triggering action is    *)
(* still being delivered.  One TLA+ action is one call made from the event *)
(* loop (dispatch, addEffect, the completion of an effect's asynchronous   *)
(* work); the nested calls are evaluated inside it by the recursive        *)
(* operators below, which thread a record w of everything a call mutates.  *)
(***************************************************************************)
EXTENDS Integers, Sequences, FiniteSets, TLC

\* ------------------------------------------------------------------------
\* Bounds
\* ------------------------------------------------------------------------
\* calls made from the event loop: dispatch, the Store's other methods, and
\* completions of an effect's asynchronous work
MaxCalls == 3

\* ------------------------------------------------------------------------
\* Actions, states and the reducer handed to the constructor
\* ------------------------------------------------------------------------
\* payload of setCounter(100) in the effect of the test "應該執行 Effects"
SetValue == 100

\* Types the reducer distinguishes.  UNKNOWN has no handler; FAULTY and
\* UNDEFINED stand for the actions on which the tests' faultyReducer throws
\* and undefinedReducer returns undefined.
ValidTypes == {"INCREMENT", "SET_COUNTER", "UNKNOWN", "FAULTY", "UNDEFINED"}

\* What a caller may hand to dispatch: null/undefined (nil), an object whose
\* type is missing or empty (type = ""), or a well-formed action.
Inputs ==
    {[nil |-> TRUE, type |-> ""], [nil |-> FALSE, type |-> ""]}
        \cup {[nil |-> FALSE, type |-> t] : t \in ValidTypes}

\* A state object: ref is its reference identity, count its content.
initialState == [ref |-> 0, count |-> 0]
NoState == [ref |-> -1, count |-> 0]

\* reducer(state, action); fresh is the identity of a newly allocated object.
\* createReducer returns the input object when no handler matches, and immer's
\* produce returns the input object when the recipe changed nothing.
reducer(s, a, fresh) ==
    CASE a.type = "INCREMENT" ->
            [kind |-> "value", state |-> [ref |-> fresh, count |-> s.count + 1]]
      [] a.type = "SET_COUNTER" ->
            IF s.count = SetValue
            THEN [kind |-> "value", state |-> s]
            ELSE [kind |-> "value", state |-> [ref |-> fresh, count |-> SetValue]]
      [] a.type = "FAULTY" -> [kind |-> "throw", state |-> s]
      [] a.type = "UNDEFINED" -> [kind |-> "undefined", state |-> s]
      [] OTHER -> [kind |-> "value", state |-> s]

\* increment of the reducer handed to replaceReducer in the test
\* "應該支援 Reducer 熱重載"
HotStep == 10

\* The reducer handed to replaceReducer: only INCREMENT has a handler.
newReducer(s, a, fresh) ==
    IF a.type = "INCREMENT"
    THEN [kind |-> "value", state |-> [ref |-> fresh, count |-> s.count + HotStep]]
    ELSE [kind |-> "value", state |-> s]

ReducerNames == {"reducer", "newReducer"}

\* No stream is piped through retryWithDelay.
NoRetry ==
    [count |-> 0, delayMs |-> 0, clock |-> 0, subscribed |-> FALSE, due |-> -1,
     taken |-> 0, outcome |-> "none", log |-> <<>>]

\* The handlers given to createReducer with on(creator, handler): the one for
\* INCREMENT raises draft.count, the one for SET_COUNTER writes to the draft
\* and then throws, the one for FAULTY throws at once, the one for UNDEFINED
\* touches nothing; UNKNOWN has no handler.
Handlers ==
    [t \in ValidTypes |->
        CASE t = "INCREMENT" -> "mutate"
          [] t = "SET_COUNTER" -> "mutateThenThrow"
          [] t = "FAULTY" -> "throw"
          [] t = "UNDEFINED" -> "noop"
          [] OTHER -> "none"]

ThrowingHandlers == {t \in ValidTypes : Handlers[t] \in {"throw", "mutateThenThrow"}}

\* createReducer without its try/catch: the handler's error leaves the reducer.
createReducerUncaught(handlers, s, a, fresh) ==
    CASE handlers[a.type] = "none" -> [kind |-> "value", state |-> s]
      [] handlers[a.type] \in {"throw", "mutateThenThrow"} -> [kind |-> "throw", state |-> s]
      [] handlers[a.type] = "mutate" ->
            [kind |-> "value", state |-> [ref |-> fresh, count |-> s.count + 1]]
      [] OTHER -> [kind |-> "value", state |-> s]

\* The reducer returned by createReducer(initialState, ...ons). Without a
\* handler the state comes back as it is. With one, produce runs it on a
\* draft: an untouched draft gives the base back, a changed one a copy, and
\* a throwing handler loses its draft, the catch returning the state handed in.
createReducer(handlers, s, a, fresh) ==
    CASE handlers[a.type] = "none" -> [kind |-> "value", state |-> s]
      [] handlers[a.type] \in {"throw", "mutateThenThrow"} -> [kind |-> "value", state |-> s]
      [] handlers[a.type] = "mutate" ->
            [kind |-> "value", state |-> [ref |-> fresh, count |-> s.count + 1]]
      [] OTHER -> [kind |-> "value", state |-> s]

\* The reducer named n, applied.
Apply(n, s, a, fresh) ==
    CASE n = "newReducer" -> newReducer(s, a, fresh)
      [] n = "createdReducer" -> createReducer(Handlers, s, a, fresh)
      [] OTHER -> reducer(s, a, fresh)

\* ------------------------------------------------------------------------
\* Middleware built by createMiddleware(hooks, config)
\* ------------------------------------------------------------------------
\* type of the action a replacing before-hook returns
ReplacementType == "SET_COUNTER"

\* type of the action ErrorMiddleware's recoveryAction callback returns
RecoveryType == "INCREMENT"

\* ErrorMiddleware(config): a middleware with an error hook only
ErrorKinds == {"recover", "errDefault", "errSwallow", "errSwallowRecover"}

MiddlewareKinds ==
    {"hooks", "recover", "replace", "filtered", "disabled",
     "predicate", "errDefault", "errSwallow", "errSwallowRecover"}

\* hooks:     before/after/error hooks that record and return nothing
\* replace:   a before hook that returns a new action
\* filtered:  hooks, with actionFilter: ['INCREMENT']
\* predicate: hooks, with actionFilter: a => a.type === 'SET_COUNTER'
\* disabled:  hooks, with enabled: false
\* recover:           ErrorMiddleware({ recoveryAction })
\* errDefault:        ErrorMiddleware()                    (rethrow: true)
\* errSwallow:        ErrorMiddleware({ rethrow: false })
\* errSwallowRecover: ErrorMiddleware({ rethrow: false, recoveryAction })
\* The error hook of ErrorMiddleware returns the recovery action when one is
\* configured ("recover"); otherwise it throws the error when rethrow is set
\* ("throw") and returns undefined when it is not ("void").
Mw(name, kind) ==
    [name |-> name,
     kind |-> kind,
     enabled |-> kind # "disabled",
     hasFilter |-> kind \in {"filtered", "predicate"},
     filter |-> CASE kind = "filtered" -> {"INCREMENT"}
                  [] kind = "predicate" -> {"SET_COUNTER"}
                  [] OTHER -> {},
     before |-> CASE kind \in ErrorKinds -> "none"
                  [] kind = "replace" -> "replace"
                  [] OTHER -> "void",
     after |-> IF kind \in ErrorKinds \cup {"replace"} THEN "none" ELSE "void",
     error |-> CASE kind \in {"recover", "errSwallowRecover"} -> "recover"
                 [] kind = "errDefault" -> "throw"
                 [] kind = "replace" -> "none"
                 [] OTHER -> "void"]

\* DebounceMiddleware({ interval, actionTypes: types }): a before hook that
\* returns a promise, actionFilter: types, async: true
DebounceMw(name, types) ==
    [Mw(name, "filtered") EXCEPT !.kind = "debounce", !.filter = types,
                                 !.before = "debounce", !.after = "none",
                                 !.error = "none"]

MiddlewareConfigs ==
    {<<>>}
        \cup {<<Mw("A", k)>> : k \in MiddlewareKinds}
        \cup {<<Mw("A", "hooks"), Mw("B", k)>> : k \in {"hooks", "recover", "filtered"}}
        \cup {<<Mw("A", k), Mw("B", "hooks")>> : k \in {"recover", "disabled", "predicate"}}

\* ------------------------------------------------------------------------
\* Effects: action$.pipe(filter(a => a.type === trigger), map(() => emit))
\* when sync; the same through an asynchronous inner source otherwise.
\* ------------------------------------------------------------------------
Fx(name, trigger, emit, sync) ==
    [name |-> name, trigger |-> trigger, emit |-> emit, sync |-> sync, fault |-> "none",
     enabled |-> TRUE, strategy |-> "merge"]

\* The strategies of executeWith.
Strategies == {"switch", "merge", "concat", "exhaust"}

\* An effect whose work is asynchronous and runs under a strategy:
\* action$.pipe(ofType(trigger), executeWith(strategy, () => work)).
StrategyFx(name, trigger, emit, strategy) ==
    [Fx(name, trigger, emit, FALSE) EXCEPT !.strategy = strategy]

\* An effect registered with config { enabled: false }.
DisabledFx(name, trigger, emit, sync) ==
    [Fx(name, trigger, emit, sync) EXCEPT !.enabled = FALSE]

\* An effect that fails: the effect function throws when it is invoked
\* (fault = "invoke"), or its output stream errors on the first action of type
\* trigger, e.g. action$.pipe(filter(...), map(() => { throw ... }))
\* (fault = "stream").
FaultyFx(name, trigger, fault) ==
    [name |-> name, trigger |-> trigger, emit |-> "", sync |-> TRUE, fault |-> fault,
     enabled |-> TRUE, strategy |-> "merge"]

\* A synchronous effect's follow-up is of a higher rank than its trigger, so
\* that nested dispatch terminates (a cycle of synchronous effects never
\* returns).
Rank(t) == CASE t = "SET_COUNTER" -> 2 [] t = "INCREMENT" -> 1 [] OTHER -> 0

EffectConfigs ==
    {<<>>,
     <<Fx("E1", "INCREMENT", "SET_COUNTER", TRUE)>>,
     <<Fx("E1", "FAULTY", "INCREMENT", TRUE)>>,
     <<Fx("E1", "UNDEFINED", "INCREMENT", TRUE)>>,
     <<Fx("E1", "UNKNOWN", "INCREMENT", TRUE)>>,
     <<Fx("E1", "INCREMENT", "SET_COUNTER", FALSE)>>,
     <<Fx("E1", "UNKNOWN", "INCREMENT", TRUE), Fx("E2", "INCREMENT", "SET_COUNTER", TRUE)>>}

AddableEffects ==
    {Fx("E1", "INCREMENT", "SET_COUNTER", TRUE),
     Fx("E2", "UNKNOWN", "SET_COUNTER", TRUE),
     Fx("E2", "SET_COUNTER", "UNKNOWN", FALSE)}

\* The configurations the Store is constructed with.
StoreConfigs ==
    {[middleware |-> m, effects |-> <<>>] : m \in MiddlewareConfigs}
        \cup {[middleware |-> <<>>, effects |-> f] : f \in EffectConfigs}
        \cup {[middleware |-> <<Mw("A", "hooks")>>,
                effects |-> <<Fx("E1", "INCREMENT", "SET_COUNTER", TRUE)>>],
               [middleware |-> <<Mw("A", "recover")>>,
                effects |-> <<Fx("E1", "FAULTY", "INCREMENT", TRUE)>>],
               [middleware |-> <<Mw("A", "replace")>>,
                effects |-> <<Fx("E1", "INCREMENT", "SET_COUNTER", TRUE)>>],
               [middleware |-> <<Mw("A", "hooks"), Mw("B", "hooks")>>,
                effects |-> <<Fx("E1", "INCREMENT", "SET_COUNTER", FALSE)>>]}

EffectNames == {"E1", "E2"}
ObserverNames == EffectNames \cup {"obs"}

\* An observer of _action$: an effect's subscription, or the subscriber
\* "obs" that application code attached to store.action$.
EffectObserver(e) ==
    [kind |-> "effect", name |-> e.name, trigger |-> e.trigger, emit |-> e.emit,
     sync |-> e.sync, fault |-> e.fault, strategy |-> e.strategy]
ExternalObserver ==
    [kind |-> "observer", name |-> "obs", trigger |-> "", emit |-> "", sync |-> FALSE,
     fault |-> "none", strategy |-> ""]

VARIABLES
    state,           \* _state$.getValue()
    middleware,      \* this.middleware
    effects,         \* this.effects
    observers,       \* observers of _action$, in subscription order
    pending,         \* asynchronous effect work in flight
    threw,           \* whether the last call from outside threw
    nextRef,         \* next object identity
    nextSeq,         \* number of the next dispatch call
    calls,           \* one record per dispatch call, in call order
    actionLog,       \* per observer of _action$: the action ids it received
    stateLog,        \* emissions of _state$ after the initial one
    hookLog,         \* hook and reducer invocations, in order
    triggers,        \* per effect name: published actions matching its filter
    emitted,         \* per effect name: actions its output stream emitted
    cancelled,       \* per effect name: in-flight work dropped by unsubscribe
    callCount,       \* calls made from the event loop so far
    linkLog,         \* actions as they arrive at each link of the chain
    reducerName,     \* this.reducer
    reconfig,        \* addMiddleware/removeMiddleware/replaceReducer calls made
    removed,         \* effect names that removeEffect was called with
    dead,            \* effects whose output stream has errored (catchError -> EMPTY)
    setupThrew,      \* whether the constructor or an addEffect call threw
    stateObservers,  \* observers of _state$, in subscription order
    signalCache,     \* SignalProjector._signalCache: cache key -> handle, 0 if absent
    signalValue,     \* per handle: the signal's value and its stream's last value
    selects,         \* select calls made: the key given and the handle returned
    destroys,        \* destroy calls made
    now,             \* the clock, in ticks
    timers,          \* setTimeout timers that are armed
    debounceMap,     \* DebounceMiddleware's debounceMap: action type -> timer id, 0 if absent
    debounceLog,     \* actions the debounce middleware held back or forwarded, with the time
    manager,         \* the EffectManager: its maps, isRunning, and what its effects did
    workLog,         \* asynchronous effect work: queued, started, completed, cancelled, ignored
    builder,         \* StoreBuilder's fields: registered reducers, middleware and effects
    builds,          \* calls of StoreBuilder.build and what each one did
    rootState,       \* the state tree a combined reducer is applied to
    rootLog,         \* applications of the combined reducer: input, what each branch returned, result
    runtime,         \* the runtime and configuration a Store runs in: environment, solid-js, enableSignals
    streamLog,       \* values the subscribers of selectState streams received
    wallClock,       \* what Date.now() returns, in milliseconds
    uuidState,       \* the state uuid's v7 keeps between calls: msecs and seq
    created,         \* the actions action creators have made, in order
    heap,            \* the arrays that builders and Stores hold by reference
    stores,          \* the Stores a shared builder has built
    edits,           \* calls on a shared builder and on its Stores, with the lists before and after
    retry            \* a stream piped through retryWithDelay: its source, its timer and what it delivered

vars == <<state, middleware, effects, observers, pending, threw, nextRef, nextSeq,
          calls, actionLog, stateLog, hookLog, triggers, emitted, cancelled,
          callCount, linkLog, reducerName, reconfig, removed, dead, setupThrew,
          stateObservers, signalCache, signalValue, selects, destroys,
          now, timers, debounceMap, debounceLog,
          manager,
          workLog,
          builder,
          builds,
          rootState,
          rootLog,
          runtime,
          streamLog,
          wallClock,
          uuidState,
          created,
          heap,
          stores,
          edits,
          retry>>

\* Whether destroy() has been called.
Destroyed == destroys # <<>>

\* Everything a dispatch call can change.
World ==
    [state |-> state, pending |-> pending, threw |-> FALSE, nextRef |-> nextRef,
     nextSeq |-> nextSeq, calls |-> calls, actionLog |-> actionLog,
     stateLog |-> stateLog, hookLog |-> hookLog, triggers |-> triggers,
     emitted |-> emitted, linkLog |-> linkLog, dead |-> dead,
     stateObservers |-> stateObservers, signalValue |-> signalValue,
     timers |-> timers, debounceMap |-> debounceMap, debounceLog |-> debounceLog,
     workLog |-> workLog,
     streamLog |-> streamLog]

RECURSIVE dispatch(_, _, _)
RECURSIVE Chain(_, _, _)
RECURSIVE Deliver(_, _, _)
RECURSIVE DeliverState(_, _, _, _)

\* startSingleEffect's subscriber: next: (action) => { if (action) this.dispatch(action) }.
\* What dispatch throws inside a subscriber's next is reported by rxjs
\* asynchronously; it does not reach the caller of Subject.next.
effectNext(w, s) ==
    LET w1 == [w EXCEPT !.emitted[s.name] = @ + 1]
    IN dispatch(w1, [nil |-> FALSE, type |-> s.emit], s.name)


\* An entry of workLog.
Work(ev, name, by) == [ev |-> ev, name |-> name, by |-> by]

\* executeWith where every strategy is mergeMap.
executeWithMergeOnly(w, s, a) ==
    [w EXCEPT !.pending = Append(@, [name |-> s.name, type |-> s.emit, by |-> a.id,
                                     strategy |-> s.strategy, started |-> TRUE]),
              !.workLog = Append(@, Work("started", s.name, a.id))]


\* executeWith where concat ignores a trigger that arrives while work is in
\* flight.
executeWithConcatDrops(w, s, a) ==
    IF \E k \in 1..Len(w.pending) : w.pending[k].name = s.name
    THEN IF s.strategy = "concat"
         THEN [w EXCEPT !.workLog = Append(@, Work("ignored", s.name, a.id))]
         ELSE executeWithMergeOnly(w, s, a)
    ELSE executeWithMergeOnly(w, s, a)

\* executeWith(strategy, effectFn) receives the trigger a for the effect s.
\*   switchMap:  unsubscribes the work in flight and starts the new one
\*   mergeMap:   starts the new work beside the others
\*   concatMap:  buffers the trigger while work is in flight
\*   exhaustMap: ignores the trigger while work is in flight
executeWith(w, s, a) ==
    LET mine == {k \in 1..Len(w.pending) : w.pending[k].name = s.name}
        work == [name |-> s.name, type |-> s.emit, by |-> a.id,
                 strategy |-> s.strategy, started |-> TRUE]
        begin(x) == [x EXCEPT !.pending = Append(@, work),
                              !.workLog = Append(@, Work("started", s.name, a.id))]
    IN CASE s.strategy = "switch" ->
              IF mine = {} THEN begin(w)
              ELSE LET old == w.pending[CHOOSE k \in mine : TRUE]
                   IN begin([w EXCEPT !.pending = SelectSeq(@, LAMBDA p : p.name # s.name),
                                      !.workLog = Append(@, Work("cancelled", s.name, old.by))])
         [] s.strategy = "concat" ->
              IF mine = {} THEN begin(w)
              ELSE [w EXCEPT !.pending = Append(@, [work EXCEPT !.started = FALSE]),
                             !.workLog = Append(@, Work("queued", s.name, a.id))]
         [] s.strategy = "exhaust" ->
              IF mine = {} THEN begin(w)
              ELSE [w EXCEPT !.workLog = Append(@, Work("ignored", s.name, a.id))]
         [] OTHER -> begin(w)

\* The work p has emitted its result and completes, unless it was
\* unsubscribed meanwhile: it leaves the work in flight, and concatMap starts
\* the work of the oldest buffered trigger.
complete(w, p) ==
    LET at == {k \in 1..Len(w.pending) : w.pending[k] = p}
    IN IF at = {} THEN w
       ELSE LET k == CHOOSE i \in at : TRUE
                rest == [i \in 1..(Len(w.pending) - 1) |->
                            IF i < k THEN w.pending[i] ELSE w.pending[i + 1]]
                waiting == {i \in 1..Len(rest) : rest[i].name = p.name /\ ~rest[i].started}
                w1 == [w EXCEPT !.pending = rest,
                                !.workLog = Append(@, Work("completed", p.name, p.by))]
            IN IF p.strategy # "concat" \/ waiting = {} THEN w1
               ELSE LET n == CHOOSE i \in waiting : \A j \in waiting : i <= j
                    IN [w1 EXCEPT !.pending[n].started = TRUE,
                                  !.workLog = Append(@, Work("started", p.name, rest[n].by))]

\* Subject.next: observers[k..] receive the action one after another.  An
\* effect whose stream has errored is unsubscribed and receives nothing; an
\* error raised in an effect's operators goes to its catchError, which
\* completes that effect's stream.
Deliver(w, a, k) ==
    IF k > Len(observers) THEN w
    ELSE LET s == observers[k]
             w1 == [w EXCEPT !.actionLog[s.name] = Append(@, a.id)]
             w2 == IF s.kind = "effect" /\ s.trigger = a.type
                   THEN CASE s.fault = "stream" -> [w1 EXCEPT !.dead = @ \cup {s.name}]
                          [] s.sync -> effectNext(w1, s)
                          [] OTHER -> executeWith(w1, s, a)
                   ELSE w1
         IN IF s.kind = "effect" /\ s.name \in w.dead
            THEN Deliver(w, a, k + 1)
            ELSE Deliver(w2, a, k + 1)

\* this._action$.next(action).  A completed Subject notifies nobody.
actionNext(w, a) ==
    IF Destroyed THEN w ELSE
    LET matching == {i \in 1..Len(effects) : effects[i].trigger = a.type}
        names == {effects[i].name : i \in matching}
        w1 == [w EXCEPT !.triggers = [n \in EffectNames |->
                            IF n \in names THEN @[n] + 1 ELSE @[n]],
                        !.calls[a.id].published = TRUE,
                        !.calls[a.id].ptype = a.type,
                        !.calls[a.id].subscribers = {observers[i].name : i \in 1..Len(observers)}]
    IN Deliver(w1, a, 1)

\* _state$.next that notifies twice.
stateNextTwice(w, a, newState) ==
    LET e == [ref |-> newState.ref, count |-> newState.count, by |-> a.id]
    IN [w EXCEPT !.state = newState, !.stateLog = Append(Append(@, e), e)]

\* Selectors handed to select: state => state.count and state => state.count * 2.
Selectors == {"count", "double"}

\* A selector that throws for the state SET_COUNTER leaves.
FaultySelectors == {"picky"}

Project(selector, s) ==
    IF selector \in {"double", "scale2"} THEN s.count + s.count ELSE s.count

\* A selector whose result is a function: state => () => state.count.
FunctionSelectors == {"thunk"}

\* typeof selector(s) === 'function'
ReturnsFunction(selector) == selector \in FunctionSelectors

\* Two functions one factory made, factor => s => s.count * factor with the
\* factors 1 and 2: different closures with the same source text.
ClosureSelectors == {"scale1", "scale2"}

AnySelector == Selectors \cup FaultySelectors \cup FunctionSelectors \cup ClosureSelectors

\* selector(s) throws
Throws(selector, s) == selector \in FaultySelectors /\ s.count = SetValue

\* The runtime a Store runs in: what detectEnvironment finds, whether
\* require('solid-js') gives a module whose createSignal works ("ok"), fails
\* ("missing"), or gives one whose createSignal throws ("throws"), and the
\* enableSignals option of the Store's configuration.
Runtime(environment, solid, enableSignals) ==
    [environment |-> environment, solid |-> solid, enableSignals |-> enableSignals]

BrowserRuntime == Runtime("browser", "ok", TRUE)

\* isServer()
isServer == runtime.environment = "node"

\* Signal values: a projected value, or undefined.
Defined(x) == [defined |-> TRUE, v |-> x]
UndefinedValue == [defined |-> FALSE, v |-> 0]

\* The value the subscriber of selectState(selector) received last.
LastSeen(w, selector) ==
    LET at == {i \in 1..Len(w.streamLog) : w.streamLog[i].selector = selector}
    IN IF at = {} THEN UndefinedValue
       ELSE w.streamLog[CHOOSE i \in at : \A j \in at : j <= i].value

\* A subscriber of state$ that dispatches from inside its callback when it
\* sees the first increment.
Reactor == [kind |-> "reactor", handle |-> 0, selector |-> ""]

ReactorAction == [nil |-> FALSE, type |-> "SET_COUNTER"]

\* One observer of _state$ receives the value v.
\*   "signal":  map(selector), distinctUntilChanged, then setSignal(newValue);
\*              when the selector throws, catchError ends the subscription.
\*              A result that is a function is a new one for every state:
\*              createSignal's subscriber returns without writing it,
\*              createMemoSignal's hands it to solid's setter, which calls
\*              it and stores what it returns
\*   "initial": createSignal's first subscription; it unsubscribes itself
\*   "stream":  a subscriber of selectState(selector): map(selector),
\*              distinctUntilChanged; when the selector throws the stream
\*              errors and the subscription ends
\*   "reactor": dispatches from inside the callback
stateObserverNext(w, o, v) ==
    CASE o.kind = "signal" ->
            LET x == Defined(Project(o.selector, v))
            IN IF Throws(o.selector, v)
               THEN [w EXCEPT !.stateObservers = SelectSeq(@, LAMBDA q : q # o)]
               ELSE IF ReturnsFunction(o.selector)
               THEN IF w.signalValue[o.handle].memo
                    THEN [w EXCEPT !.signalValue[o.handle].last = x,
                                   !.signalValue[o.handle].value = x,
                                   !.signalValue[o.handle].fn = FALSE,
                                   !.signalValue[o.handle].invoked = TRUE]
                    ELSE [w EXCEPT !.signalValue[o.handle].last = x]
               ELSE IF x = w.signalValue[o.handle].last THEN w
               ELSE [w EXCEPT !.signalValue[o.handle].last = x,
                              !.signalValue[o.handle].value = x]
      [] o.kind = "initial" ->
            [w EXCEPT !.stateObservers = SelectSeq(@, LAMBDA q : q # o)]
      [] o.kind = "stream" ->
            LET x == Defined(Project(o.selector, v))
            IN IF Throws(o.selector, v)
               THEN [w EXCEPT !.stateObservers = SelectSeq(@, LAMBDA q : q # o)]
               ELSE IF x = LastSeen(w, o.selector) THEN w
               ELSE [w EXCEPT !.streamLog = Append(@, [selector |-> o.selector, value |-> x,
                                                        at |-> Len(w.stateLog),
                                                        first |-> FALSE])]
      [] OTHER ->
            IF v.count = initialState.count + 1
            THEN dispatch(w, ReactorAction, "reactor")
            ELSE w

\* Subject.next iterates over a copy of its observers; an observer that has
\* unsubscribed in the meantime ignores the value.
DeliverState(w, v, snapshot, k) ==
    IF k > Len(snapshot) THEN w
    ELSE LET o == snapshot[k]
             subscribed == \E i \in 1..Len(w.stateObservers) : w.stateObservers[i] = o
         IN DeliverState(IF subscribed THEN stateObserverNext(w, o, v) ELSE w,
                         v, snapshot, k + 1)

\* this._state$.next(newState): BehaviorSubject stores the value, then
\* notifies its observers unless it has completed.
stateNext(w, a, newState) ==
    IF Destroyed THEN [w EXCEPT !.state = newState] ELSE
    LET w1 == [w EXCEPT !.state = newState,
                        !.stateLog = Append(@, [ref |-> newState.ref,
                                                count |-> newState.count, by |-> a.id])]
    IN DeliverState(w1, newState, w1.stateObservers, 1)

\* The bookkeeping of a reducer invocation: what the reducer was handed and
\* which observers had received the action by then.
ReducerInvoked(w, a) ==
    [w EXCEPT !.hookLog = Append(@, [who |-> "reducer", ph |-> "run", id |-> a.id]),
              !.nextRef = @ + 1,
              !.calls[a.id].input = w.state,
              !.calls[a.id].reducer = reducerName,
              !.calls[a.id].seen =
                  {n \in ObserverNames :
                      \E i \in 1..Len(w.actionLog[n]) : w.actionLog[n][i] = a.id}]

\* rawDispatch without the newState !== currentState test.
rawDispatchAlwaysEmits(w, a) ==
    IF a.nil \/ a.type = ""
    THEN [w EXCEPT !.threw = TRUE, !.calls[a.id].outcome = "invalid"]
    ELSE LET w1 == actionNext(w, a)
             currentState == w1.state
             r == reducer(currentState, a, w1.nextRef)
             w2 == ReducerInvoked(w1, a)
         IN CASE r.kind = "throw" ->
                    [w2 EXCEPT !.threw = TRUE, !.calls[a.id].outcome = "throw"]
              [] r.kind = "undefined" ->
                    [w2 EXCEPT !.threw = FALSE, !.calls[a.id].outcome = "undefined"]
              [] OTHER ->
                    [stateNext(w2, a, r.state) EXCEPT !.threw = FALSE,
                                                      !.calls[a.id].outcome = "new"]

\* rawDispatch that reduces first and publishes the action afterwards.
rawDispatchReduceFirst(w, a) ==
    IF a.nil \/ a.type = ""
    THEN [w EXCEPT !.threw = TRUE, !.calls[a.id].outcome = "invalid"]
    ELSE LET currentState == w.state
             r == reducer(currentState, a, w.nextRef)
             w2 == ReducerInvoked(w, a)
         IN CASE r.kind = "throw" ->
                    [w2 EXCEPT !.threw = TRUE, !.calls[a.id].outcome = "throw"]
              [] r.kind = "undefined" ->
                    [actionNext(w2, a) EXCEPT !.threw = FALSE,
                                              !.calls[a.id].outcome = "undefined"]
              [] r.state.ref # currentState.ref ->
                    [actionNext(stateNext(w2, a, r.state), a)
                        EXCEPT !.threw = FALSE, !.calls[a.id].outcome = "new"]
              [] OTHER ->
                    [actionNext(w2, a) EXCEPT !.threw = FALSE,
                                              !.calls[a.id].outcome = "same"]

\* rawDispatch without the !action || !action.type test.
rawDispatchNoValidation(w, a) ==
    LET w1 == actionNext(w, a)
        currentState == w1.state
        r == reducer(currentState, a, w1.nextRef)
        w2 == ReducerInvoked(w1, a)
    IN CASE r.kind = "throw" ->
               [w2 EXCEPT !.threw = TRUE, !.calls[a.id].outcome = "throw"]
         [] r.kind = "undefined" ->
               [w2 EXCEPT !.threw = FALSE, !.calls[a.id].outcome = "undefined"]
         [] r.state.ref # currentState.ref ->
               [stateNext(w2, a, r.state) EXCEPT !.threw = FALSE,
                                                 !.calls[a.id].outcome = "new"]
         [] OTHER ->
               [w2 EXCEPT !.threw = FALSE, !.calls[a.id].outcome = "same"]

\* rawDispatch that reads the current state before it publishes the action.
rawDispatchReadsStateFirst(w, a) ==
    IF a.nil \/ a.type = ""
    THEN [w EXCEPT !.threw = TRUE, !.calls[a.id].outcome = "invalid"]
    ELSE LET currentState == w.state
             w1 == actionNext(w, a)
             r == Apply(reducerName, currentState, a, w1.nextRef)
             w2 == [ReducerInvoked(w1, a) EXCEPT !.calls[a.id].input = currentState]
         IN CASE r.kind = "throw" ->
                    [w2 EXCEPT !.threw = TRUE, !.calls[a.id].outcome = "throw"]
              [] r.kind = "undefined" ->
                    [w2 EXCEPT !.threw = FALSE, !.calls[a.id].outcome = "undefined"]
              [] r.state.ref # currentState.ref ->
                    [stateNext(w2, a, r.state) EXCEPT !.threw = FALSE,
                                                      !.calls[a.id].outcome = "new"]
              [] OTHER ->
                    [w2 EXCEPT !.threw = FALSE, !.calls[a.id].outcome = "same"]

\* The rawDispatch closure of setupRawDispatch.
rawDispatch(w, a) ==
    IF a.nil \/ a.type = ""
    THEN [w EXCEPT !.threw = TRUE, !.calls[a.id].outcome = "invalid"]
    ELSE LET w1 == actionNext(w, a)
             currentState == w1.state
             r == Apply(reducerName, currentState, a, w1.nextRef)
             w2 == ReducerInvoked(w1, a)
         IN CASE r.kind = "throw" ->
                    [w2 EXCEPT !.threw = TRUE, !.calls[a.id].outcome = "throw"]
              [] r.kind = "undefined" ->
                    [w2 EXCEPT !.threw = FALSE, !.calls[a.id].outcome = "undefined"]
              [] r.state.ref # currentState.ref ->
                    [stateNext(w2, a, r.state) EXCEPT !.threw = FALSE,
                                                      !.calls[a.id].outcome = "new"]
              [] OTHER ->
                    [w2 EXCEPT !.threw = FALSE, !.calls[a.id].outcome = "same"]

Hook(w, m, ph, a) ==
    [w EXCEPT !.hookLog = Append(@, [who |-> m.name, ph |-> ph, id |-> a.id])]

\* handleSyncMiddleware that runs its after hook before calling next: the
\* chain as a flat list.
handleSyncMiddlewareFlat(w, a, i) ==
    LET m == middleware[i]
        wb == IF m.before # "none" THEN Hook(w, m, "before", a) ELSE w
        contextAction == IF m.before = "replace"
                         THEN [nil |-> FALSE, type |-> ReplacementType, id |-> a.id]
                         ELSE a
        wa == IF m.after # "none" THEN Hook(wb, m, "after", contextAction) ELSE wb
        wn == Chain(wa, contextAction, i + 1)
    IN IF ~wn.threw \/ m.error = "none" THEN wn
       ELSE LET we == Hook(wn, m, "error", contextAction)
            IN IF m.error = "recover" /\ ~contextAction.nil
               THEN [we EXCEPT !.threw = FALSE]
               ELSE we

\* handleSyncMiddleware that hands the recovery action to next.
handleSyncMiddlewareRedispatch(w, a, i) ==
    LET m == middleware[i]
        wb == IF m.before # "none" THEN Hook(w, m, "before", a) ELSE w
        contextAction == IF m.before = "replace"
                         THEN [nil |-> FALSE, type |-> ReplacementType, id |-> a.id]
                         ELSE a
        wn == Chain(wb, contextAction, i + 1)
    IN IF ~wn.threw
       THEN IF m.after # "none" THEN Hook(wn, m, "after", contextAction) ELSE wn
       ELSE IF m.error = "none" THEN wn
            ELSE LET we == Hook(wn, m, "error", contextAction)
                 IN IF m.error = "recover" /\ ~contextAction.nil
                    THEN Chain([we EXCEPT !.threw = FALSE],
                               [nil |-> FALSE, type |-> RecoveryType, id |-> a.id], i + 1)
                    ELSE we

\* handleSyncMiddleware(hooks, context, next) of middleware[i].  An error
\* hook that returns an action swallows the error; ErrorMiddleware's hook
\* reads context.action.type before it returns the recovery action, which
\* itself throws when the action is null.
handleSyncMiddleware(w, a, i) ==
    LET m == middleware[i]
        wb == IF m.before # "none" THEN Hook(w, m, "before", a) ELSE w
        contextAction == IF m.before = "replace"
                         THEN [nil |-> FALSE, type |-> ReplacementType, id |-> a.id]
                         ELSE a
        wn == Chain(wb, contextAction, i + 1)
    IN IF ~wn.threw
       THEN IF m.after # "none" THEN Hook(wn, m, "after", contextAction) ELSE wn
       ELSE IF m.error = "none" THEN wn
            ELSE LET we == Hook(wn, m, "error", contextAction)
                 IN IF m.error = "recover" /\ ~contextAction.nil
                    THEN [we EXCEPT !.threw = FALSE]
                    ELSE we

\* The quiet interval of the debounce middleware, in ticks of the clock.
Interval == 2

\* handleAsyncMiddleware that leaves the earlier timer armed.
handleAsyncMiddlewareKeepsTimer(w, a, i) ==
    LET key == a.type
    IN [w EXCEPT !.timers = Append(@, [id |-> a.id, key |-> key, action |-> a,
                                       link |-> i, deadline |-> now + Interval]),
                 !.debounceMap[key] = a.id,
                 !.debounceLog = Append(@, [ev |-> "held", id |-> a.id, type |-> key,
                                            at |-> now]),
                 !.threw = FALSE]

\* handleAsyncMiddleware(hooks, context, next) of the debounce middleware, up
\* to its await: the before hook clears the timer armed for the action's
\* type, arms a new one, and returns a promise that the new timer resolves.
\* The call returns a promise to its caller; next has not been called.
handleAsyncMiddleware(w, a, i) ==
    LET key == a.type
        kept == SelectSeq(w.timers, LAMBDA t : t.id # w.debounceMap[key])
    IN [w EXCEPT !.timers = Append(kept, [id |-> a.id, key |-> key, action |-> a,
                                          link |-> i, deadline |-> now + Interval]),
                 !.debounceMap[key] = a.id,
                 !.debounceLog = Append(@, [ev |-> "held", id |-> a.id, type |-> key,
                                            at |-> now]),
                 !.threw = FALSE]

\* createMiddleware without the actionFilter test.
createMiddlewareIgnoresFilter(w, a, i) ==
    LET m == middleware[i]
    IN IF ~m.enabled THEN Chain(w, a, i + 1) ELSE handleSyncMiddleware(w, a, i)

\* The function createMiddleware returns, for middleware[i].  Reading
\* action.type of null for the filter throws outside handleSyncMiddleware.
createMiddleware(w, a, i) ==
    LET m == middleware[i]
    IN IF ~m.enabled THEN Chain(w, a, i + 1)
       ELSE IF m.hasFilter /\ a.nil THEN [w EXCEPT !.threw = TRUE]
       ELSE IF m.hasFilter /\ a.type \notin m.filter THEN Chain(w, a, i + 1)
       ELSE IF m.kind = "debounce" THEN handleAsyncMiddleware(w, a, i)
       ELSE handleSyncMiddleware(w, a, i)

\* compose(...chain)(finalDispatch): link i wraps link i + 1, the last link
\* wraps rawDispatch.
Chain(w, a, i) ==
    LET w1 == [w EXCEPT !.linkLog =
                   Append(@, [id |-> a.id, link |-> i, nil |-> a.nil, type |-> a.type,
                              who |-> IF i > Len(middleware) THEN "rawDispatch"
                                      ELSE middleware[i].name])]
    IN IF i > Len(middleware) THEN rawDispatch(w1, a) ELSE createMiddleware(w1, a, i)

\* A hand-written middleware whose outer function, the one given the store
\* API, throws; it has no hooks.
ThrowingMw(name) == [Mw(name, "disabled") EXCEPT !.kind = "throwsOnInit"]

\* middlewares.map(middleware => middleware(middlewareAPI)) inside the try of
\* composeMiddleware: whether every link could be made. The catch logs the
\* error and throws nothing.
Instantiated(ms) ==
    [threw |-> FALSE, ok |-> \A i \in 1..Len(ms) : ms[i].kind # "throwsOnInit"]

\* setupMiddleware(): its own catch rethrows what composeMiddleware throws.
setupMiddleware(ms) == IF ms = <<>> THEN FALSE ELSE Instantiated(ms).threw

\* composeMiddleware that leaves out only the link that could not be made.
composeMiddlewareSkipsFailing(w, a) == Chain(w, a, 1)

\* composeMiddleware(middlewareAPI, middlewares, finalDispatch): the chain
\* over finalDispatch, or finalDispatch itself when a link could not be made.
composeMiddleware(w, a) ==
    IF Instantiated(middleware).ok THEN Chain(w, a, 1)
    ELSE Chain(w, a, Len(middleware) + 1)

NewCall(id, in, origin, w) ==
    [id |-> id, type |-> in.type, nil |-> in.nil, origin |-> origin,
     pre |-> w.state, input |-> NoState, outcome |-> "none", post |-> w.state,
     threw |-> FALSE, published |-> FALSE, ptype |-> "", subscribers |-> {},
     seen |-> {}, reducer |-> "",
     emitsBefore |-> Len(w.stateLog), emitsAfter |-> Len(w.stateLog)]

\* this.dispatch(action), as set by setupMiddleware
dispatch(w, in, origin) ==
    LET id == w.nextSeq
        a == [nil |-> in.nil, type |-> in.type, id |-> id]
        w0 == [w EXCEPT !.nextSeq = id + 1,
                        !.calls = Append(@, NewCall(id, in, origin, w)),
                        !.threw = FALSE]
        w1 == composeMiddleware(w0, a)
    IN [w1 EXCEPT !.calls[id].post = w1.state,
                  !.calls[id].threw = w1.threw,
                  !.calls[id].emitsAfter = Len(w1.stateLog)]

\* ------------------------------------------------------------------------
\* The Store
\* ------------------------------------------------------------------------
\* The effect registry: what addEffect and removeEffect change.
Registry ==
    [effects |-> effects, observers |-> observers, pending |-> pending,
     cancelled |-> cancelled, dead |-> dead, threw |-> FALSE]

\* startSingleEffect without its try/catch.
startSingleEffectUnguarded(r, e) ==
    IF e.fault = "invoke" THEN [r EXCEPT !.threw = TRUE]
    ELSE [r EXCEPT !.observers = Append(@, EffectObserver(e))]

\* startSingleEffect: effectConfig.effect(this.action$, this.state$) subscribes
\* to _action$, behind the observers already there.  What the effect function
\* throws is caught and logged: nothing is subscribed.
startSingleEffect(r, e) ==
    IF e.fault = "invoke" THEN r
    ELSE [r EXCEPT !.observers = Append(@, EffectObserver(e))]

RECURSIVE startEffectsFrom(_, _)
startEffectsFrom(r, k) ==
    IF k > Len(r.effects) THEN r
    ELSE startEffectsFrom(startSingleEffect(r, r.effects[k]), k + 1)

\* startEffects: this.effects.forEach(startSingleEffect)
startEffects(r) == startEffectsFrom(r, 1)

\* stopEffects: every effect subscription is unsubscribed, which also drops
\* the asynchronous work those subscriptions had in flight.
stopEffects(r) ==
    [r EXCEPT !.observers = SelectSeq(@, LAMBDA s : s.kind # "effect"),
              !.dead = {},
              !.pending = <<>>,
              !.cancelled = [n \in EffectNames |->
                  @[n] + Cardinality({i \in 1..Len(r.pending) : r.pending[i].name = n})]]

\* removeEffect(name)
removeEffect(r, name) ==
    LET found == {i \in 1..Len(r.effects) : r.effects[i].name = name}
    IN IF found = {} THEN r
       ELSE LET index == CHOOSE i \in found : \A j \in found : i <= j
                spliced == [i \in 1..(Len(r.effects) - 1) |->
                               IF i < index THEN r.effects[i] ELSE r.effects[i + 1]]
            IN startEffects(stopEffects([r EXCEPT !.effects = spliced]))

\* addEffect that does not remove a registered effect of the same name.
addEffectKeepsOld(r, e) ==
    startSingleEffect([r EXCEPT !.effects = Append(@, e)], e)

\* addEffect(name, effect, config)
addEffect(r, e) ==
    LET r1 == IF \E i \in 1..Len(r.effects) : r.effects[i].name = e.name
              THEN removeEffect(r, e.name)
              ELSE r
        r2 == [r1 EXCEPT !.effects = Append(@, e)]
    IN startSingleEffect(r2, e)

\* addMiddleware that puts the new middleware in front.
addMiddlewareInFront(ms, m) == <<m>> \o ms

\* addMiddleware(middleware): push, then setupMiddleware() composes the chain
\* from the array again.
addMiddleware(ms, m) == Append(ms, m)

\* removeMiddleware(middleware): indexOf finds the first registration, splice
\* removes it, setupMiddleware() composes the chain again.
removeMiddleware(ms, m) ==
    LET found == {i \in 1..Len(ms) : ms[i] = m}
    IN IF found = {} THEN ms
       ELSE LET index == CHOOSE i \in found : \A j \in found : i <= j
            IN [i \in 1..(Len(ms) - 1) |-> IF i < index THEN ms[i] ELSE ms[i + 1]]

\* replaceReducer(newReducer): this.reducer = newReducer
replaceReducer(current, n) == n

\* The constructor: startEffects(), after which application code subscribes
\* "obs" to store.action$.
\* ------------------------------------------------------------------------
\* The Signal projector and the end of the Store's life
\* ------------------------------------------------------------------------
\* Keys handed to select in options.key; "" stands for a call without a key
\* (or with an empty one), for which the key is generated from the selector.
SignalKeys == {"", "k1"}

\* fn.toString(): the source text of the function, which says nothing about
\* the variables it closed over.
toString(selector) == IF selector \in ClosureSelectors THEN "scale" ELSE selector

\* generateKey(selector): a name derived from the selector's source text.
generateKey(selector) == "signal_" \o toString(selector)

\* const cacheKey = options.key || this.generateKey(selector)
cacheKeyOf(key, selector) == IF key = "" THEN generateKey(selector) ELSE key

\* const cacheKey = options.key || `memo_${this.generateKey(selector)}`
memoKeyOf(key, selector) == IF key = "" THEN "memo_" \o generateKey(selector) ELSE key

CacheKeys ==
    {cacheKeyOf(k, f) : k \in SignalKeys, f \in AnySelector}
    \cup {memoKeyOf(k, f) : k \in SignalKeys, f \in AnySelector}

\* What createSignal reads and changes; returned is the handle it returns.
Projector ==
    [signalCache |-> signalCache, signalValue |-> signalValue,
     stateObservers |-> stateObservers, returned |-> 0, failed |-> FALSE]


\* The shared body without the isServer test.
projectOnServerToo(p, cacheKey, selector) ==
    IF p.signalCache[cacheKey] # 0
    THEN [p EXCEPT !.returned = p.signalCache[cacheKey]]
    ELSE [signalCache |-> [p.signalCache EXCEPT ![cacheKey] = Len(p.signalValue) + 1],
          signalValue |-> Append(p.signalValue,
                                 [value |-> UndefinedValue, last |-> UndefinedValue,
                                  selector |-> selector, memo |-> FALSE, fn |-> FALSE,
                                  invoked |-> FALSE]),
          stateObservers |-> Append(p.stateObservers,
                                    [kind |-> "signal", handle |-> Len(p.signalValue) + 1,
                                     selector |-> selector]),
          returned |-> Len(p.signalValue) + 1,
          failed |-> FALSE]

\* The signal a call of createSignal builds; fn says that the value it holds
\* is a function, invoked that solid's setter called a function it was given.  The first subscription reads
\* the initial value; its unsubscribe fails inside the synchronous callback,
\* so it stays subscribed until the next emission.  The second subscription
\* keeps the signal up to date.  Once _state$ has completed, a subscription
\* receives no value and ends at once.  When the selector throws for the
\* current state, the first subscription ends with an error nobody handles
\* and leaves the initial value undefined, and the second ends in catchError.
newSignal(p, cacheKey, selector) ==
    LET h == Len(p.signalValue) + 1
        throws == ~Destroyed /\ Throws(selector, state)
        initialValue == IF Destroyed \/ throws THEN UndefinedValue
                        ELSE Defined(Project(selector, state))
        subs == IF Destroyed \/ throws THEN <<>>
                ELSE <<[kind |-> "initial", handle |-> h, selector |-> selector],
                       [kind |-> "signal", handle |-> h, selector |-> selector]>>
    IN [signalCache |-> [p.signalCache EXCEPT ![cacheKey] = h],
        signalValue |-> Append(p.signalValue,
                               [value |-> initialValue, last |-> initialValue,
                                selector |-> selector, memo |-> FALSE,
                                fn |-> initialValue.defined /\ ReturnsFunction(selector),
                                invoked |-> FALSE]),
        stateObservers |-> p.stateObservers \o subs,
        returned |-> h,
        failed |-> throws]

\* createSignal that builds a signal on every call.
createSignalUncached(p, key, selector) ==
    newSignal(p, cacheKeyOf(key, selector), selector)

\* The body createSignal and createMemoSignal share.  On a server it returns
\* null.  For a key that is not cached it builds the signal inside try:
\* when require('solid-js') throws, nothing has been subscribed; when solid's
\* createSignal throws, the first subscription has been made already.  Both
\* are caught and null is returned.
project(p, cacheKey, selector) ==
    IF isServer THEN [p EXCEPT !.returned = 0]
    ELSE IF p.signalCache[cacheKey] # 0
    THEN [p EXCEPT !.returned = p.signalCache[cacheKey]]
    ELSE CASE runtime.solid = "missing" -> [p EXCEPT !.returned = 0, !.failed = TRUE]
           [] runtime.solid = "throws" ->
                [p EXCEPT !.returned = 0, !.failed = TRUE,
                          !.stateObservers =
                              IF Destroyed \/ Throws(selector, state) THEN @
                              ELSE Append(@, [kind |-> "initial",
                                              handle |-> Len(p.signalValue) + 1,
                                              selector |-> selector])]
           [] OTHER -> newSignal(p, cacheKey, selector)

\* SignalProjector.createSignal(selector, { key })
createSignal(p, key, selector) ==
    project(p, cacheKeyOf(key, selector), selector)

\* SignalProjector.createMemoSignal(selector, { key })
createMemoSignal(p, key, selector) ==
    LET r == project(p, memoKeyOf(key, selector), selector)
    IN IF Len(r.signalValue) > Len(p.signalValue)
       THEN [r EXCEPT !.signalValue[r.returned].memo = TRUE]
       ELSE r

\* What destroy reads and changes.
Lifecycle ==
    [observers |-> observers, dead |-> dead, pending |-> pending,
     cancelled |-> cancelled, stateObservers |-> stateObservers,
     signalCache |-> signalCache]

\* SignalProjector.destroy: every subscription of the projector is
\* unsubscribed, and the cache is cleared.
projectorDestroy(d) ==
    [d EXCEPT !.stateObservers = SelectSeq(@, LAMBDA o : o.kind # "signal"),
              !.signalCache = [k \in CacheKeys |-> 0]]

\* destroy that leaves _action$ open.
destroyKeepsActionStream(d) ==
    LET d1 == stopEffects(d)
        d2 == projectorDestroy(d1)
    IN [d2 EXCEPT !.stateObservers = <<>>]

\* Store.destroy: stopEffects, signalProjector.destroy, then _action$ and
\* _state$ complete, which releases the observers they still have.
destroy(d) ==
    LET d1 == stopEffects(d)
        d2 == projectorDestroy(d1)
        d3 == [d2 EXCEPT !.observers = <<>>]
    IN [d3 EXCEPT !.stateObservers = <<>>]


\* ------------------------------------------------------------------------
\* Reducer composition (combineReducers)
\* ------------------------------------------------------------------------
\* The keys of the composed state tree.
Keys == {"counter", "user"}

\* The order of Object.keys over the registered keys.
KeyOrder == <<"counter", "user">>

\* The actions a combined reducer is applied to.
TreeActions == {"INCREMENT", "ADD_USER", "UNKNOWN"}

\* The values a branch holds: an object known by its reference, the number
\* NaN, or undefined.
Obj(n) == [kind |-> "object", ref |-> n]
NaNValue == [kind |-> "NaN", ref |-> 0]
Undefined == [kind |-> "undefined", ref |-> 0]

\* a !== b
StrictlyDiffers(a, b) == a # b \/ a.kind = "NaN"

\* Immer's is(a, b), which is Object.is
SameValue(a, b) == a = b

\* A state tree: the reference of the object and what it holds under each
\* key.  NoTree is undefined.
Tree(n, branches) == [defined |-> TRUE, ref |-> n, branches |-> branches]
NoTree == [defined |-> FALSE, ref |-> 0, branches |-> [k \in Keys |-> Undefined]]

\* The largest reference a tree uses.
MaxRef(t) ==
    LET refs == {t.ref} \cup {t.branches[k].ref : k \in Keys}
    IN CHOOSE m \in refs : \A n \in refs : n <= m

\* A branch reducer: whether it is a function, what it returns for an
\* undefined state, and what it does to a defined state for each action.
BranchReducer(init, on) == [callable |-> TRUE, init |-> init, on |-> on]
NotAFunction == [callable |-> FALSE, init |-> "undefined", on |-> [t \in TreeActions |-> "keep"]]

counterReducer ==
    BranchReducer("object", [t \in TreeActions |-> IF t = "INCREMENT" THEN "replace" ELSE "keep"])
userReducer ==
    BranchReducer("object", [t \in TreeActions |-> IF t = "ADD_USER" THEN "replace" ELSE "keep"])
\* (state = 0, action) => state + action.payload, with no payload
sumReducer ==
    BranchReducer("object", [t \in TreeActions |-> IF t = "INCREMENT" THEN "nan" ELSE "keep"])
\* a reducer that returns undefined for one action
clearReducer ==
    BranchReducer("object", [t \in TreeActions |-> IF t = "ADD_USER" THEN "undefined" ELSE "keep"])
\* a reducer with no initial state
noInitReducer ==
    BranchReducer("undefined", [t \in TreeActions |-> "keep"])

\* reducer(previousStateForKey, action): the value the branch reducer r
\* returns; fresh is the reference of an object it creates.
branchReduce(r, v, type, fresh) ==
    LET on == IF type \in TreeActions THEN r.on[type] ELSE "keep"
        v0 == IF v.kind = "undefined"
              THEN IF r.init = "object" THEN Obj(fresh) ELSE Undefined
              ELSE v
    IN CASE on = "replace" /\ v0.kind # "undefined" -> Obj(fresh)
         [] on = "nan" /\ v0.kind # "undefined" -> NaNValue
         [] on = "undefined" -> Undefined
         [] OTHER -> v0

\* position of a key in KeyOrder
KeyIndex(k) == CHOOSE i \in 1..Len(KeyOrder) : KeyOrder[i] = k

\* produce(state, recipe) for a recipe that assigns assigned[k] to draft[k]
\* for the keys in written: an assignment of the value the draft already
\* holds leaves the draft unmodified, and produce returns the base itself
\* when nothing was modified, a copy with the assigned keys otherwise.
produce(base, written, assigned, fresh) ==
    LET modified == {k \in written : ~SameValue(assigned[k], base.branches[k])}
    IN IF modified = {} THEN base
       ELSE Tree(fresh, [k \in Keys |-> IF k \in modified THEN assigned[k]
                                        ELSE base.branches[k]])

\* The outcome of calling a combined reducer.
Outcome(failed, error, t, returned) ==
    [threw |-> failed, error |-> error, state |-> t, returned |-> returned]

\* the combined reducer without hasChanged: it returns a new object always.
rootReducerAlwaysCopies(keys, reducers, t, type) ==
    LET base == MaxRef(t)
        returned == [k \in Keys |-> IF k \in keys
                                    THEN branchReduce(reducers[k], t.branches[k], type,
                                                      base + 1 + KeyIndex(k))
                                    ELSE t.branches[k]]
    IN Outcome(FALSE, "", Tree(base + 1, returned), returned)

\* The reducer combineReducers(reducers) returns, applied to the state t and
\* an action of the given type.  For an undefined state it asks every branch
\* reducer for its initial value and throws if one returns undefined.
\* Otherwise it writes to the draft the branches whose reducer returned a
\* value !== its input, and returns the produced state if there was one.
rootReducer(keys, reducers, t, type) ==
    LET base == MaxRef(t)
        returned == [k \in Keys |-> IF k \in keys
                                    THEN branchReduce(reducers[k], t.branches[k], type,
                                                      base + 1 + KeyIndex(k))
                                    ELSE t.branches[k]]
        changed == {k \in keys : StrictlyDiffers(returned[k], t.branches[k])}
        hasChanged == changed # {}
        nextState == produce(t, changed, returned, base + 1)
    IN IF ~t.defined
       THEN IF \E k \in keys : returned[k].kind = "undefined"
            THEN Outcome(TRUE, "returned undefined during initialization", t, returned)
            ELSE Outcome(FALSE, "", Tree(base + 1, returned), returned)
       ELSE Outcome(FALSE, "", IF hasChanged THEN nextState ELSE t, returned)

\* combineReducers(reducers): throws for an empty map and for a reducer that
\* is not a function.
combineReducers(keys, reducers) ==
    IF keys = {} THEN [threw |-> TRUE, error |-> "reducers object cannot be empty"]
    ELSE IF \E k \in keys : ~reducers[k].callable
         THEN [threw |-> TRUE, error |-> "is not a function"]
         ELSE [threw |-> FALSE, error |-> ""]

\* new StoreBuilder(): no reducers, no middleware, no effects.
NoBuilder ==
    [keys |-> {}, reducers |-> [k \in Keys |-> NotAFunction],
     middleware |-> <<>>, effects |-> <<>>, calls |-> 0]

\* validateStoreBuilder(snapshot) and throwIfInvalid: the errors found.
validateStoreBuilder(b) ==
    (IF b.keys = {} THEN {"At least one reducer must be registered"} ELSE {})
    \cup (IF \E k \in b.keys : ~b.reducers[k].callable
          THEN {"Reducer is not a function"} ELSE {})
    \cup (IF \E i \in 1..Len(b.middleware) : ~b.middleware[i].callable
          THEN {"Middleware is not a function"} ELSE {})

\* What a call of build did: whether it threw, whether new EnhancedStore
\* ran, and the effects the new Store subscribed.
Built(failed, errors, store, started, t) ==
    [threw |-> failed, errors |-> errors, store |-> store, started |-> started,
     state |-> t]

\* build without validate().
buildUnvalidated(b, started) ==
    LET init == rootReducer(b.keys, b.reducers, NoTree, "@@INIT")
    IN IF init.threw THEN Built(TRUE, {init.error}, FALSE, {}, NoTree)
       ELSE Built(FALSE, {}, TRUE, started, init.state)

\* StoreBuilder.build(): validate, combineReducers, the initial state from
\* rootReducer(undefined, @@INIT), then new EnhancedStore, whose constructor
\* subscribes the effects named in started.
build(b, started) ==
    LET errors == validateStoreBuilder(b)
        combined == combineReducers(b.keys, b.reducers)
        init == rootReducer(b.keys, b.reducers, NoTree, "@@INIT")
    IN IF errors # {} THEN Built(TRUE, errors, FALSE, {}, NoTree)
       ELSE IF combined.threw THEN Built(TRUE, {combined.error}, FALSE, {}, NoTree)
       ELSE IF init.threw THEN Built(TRUE, {init.error}, FALSE, {}, NoTree)
       ELSE Built(FALSE, {}, TRUE, started, init.state)

\* ------------------------------------------------------------------------
\* Action creators (createAction)
\* ------------------------------------------------------------------------
\* The width of uuid v7's sequence counter, scaled down from 2^32.
SeqLimit == 4

\* uuid v7 before its first call: msecs is -Infinity.
NoUuidState == [msecs |-> -1, seq |-> 0]

\* updateV7State(state, now, rnds): a later millisecond reseeds seq from the
\* random bytes; otherwise seq counts up and carries into msecs when it wraps,
\* so a clock that stands still or steps back does not lower the id.
updateV7State(st, t, rnd) ==
    IF t > st.msecs THEN [msecs |-> t, seq |-> rnd]
    ELSE LET n == (st.seq + 1) % SeqLimit
         IN [msecs |-> IF n = 0 THEN st.msecs + 1 ELSE st.msecs, seq |-> n]

\* The action creators: one made by createAction(type), one made with a
\* configured idGenerator that returns the same id every time.
Creators == {"increment", "configured"}

\* actionCreator(payload): timestamp = timestampGenerator(), id =
\* idGenerator(); st is uuid's state after the call.
actionCreator(c, t, st) ==
    [creator |-> c, timestamp |-> t,
     id |-> IF c = "configured" THEN [msecs |-> 0, seq |-> 0] ELSE st]

\* (timestamp, id) of a is less than that of b; uuid v7 strings order as
\* their msecs and seq do.
PairLess(a, b) ==
    \/ a.timestamp < b.timestamp
    \/ /\ a.timestamp = b.timestamp
       /\ \/ a.id.msecs < b.id.msecs
          \/ a.id.msecs = b.id.msecs /\ a.id.seq < b.id.seq

\* ------------------------------------------------------------------------
\* The Effect manager (EffectManager)
\* ------------------------------------------------------------------------
\* An effect handed to register: action$.pipe(filter(a => a.type === trigger),
\* map(() => emit)), with config { enabled }.
MFx(name, trigger, emit, enabled) ==
    [name |-> name, trigger |-> trigger, emit |-> emit, enabled |-> enabled]

\* The pairs of streams start can be given; NoStreams stands for undefined.
StreamIds == {"store", "other"}
NoStreams == ""

\* new EffectManager(): both maps empty, isRunning false.  invoked, produced
\* and dispatched record what the effects did: the effect functions invoked
\* and the streams they were given, the actions that reached the subscriber of
\* an effect's output, and the actions handed to the Store's dispatch.
NoManager ==
    [effects |-> <<>>, subscriptions |-> <<>>, isRunning |-> FALSE,
     started |-> NoStreams, invoked |-> <<>>, produced |-> <<>>, dispatched |-> <<>>,
     calls |-> 0]

\* Map.delete(name) on a map kept as a sequence in insertion order.
Without(q, name) == SelectSeq(q, LAMBDA x : x.name # name)

Has(q, name) == \E i \in 1..Len(q) : q[i].name = name

\* EffectManager.startSingleEffect(effectConfig, action$, state$)
managerStartSingleEffect(m, e, streams) ==
    IF streams = NoStreams THEN m
    ELSE IF ~e.enabled THEN m
    ELSE [m EXCEPT !.invoked = Append(@, [name |-> e.name, streams |-> streams]),
                   !.subscriptions = Append(Without(@, e.name),
                                            [name |-> e.name, streams |-> streams,
                                             trigger |-> e.trigger, emit |-> e.emit])]

\* EffectManager.stopSingleEffect(name)
stopSingleEffect(m, name) == [m EXCEPT !.subscriptions = Without(@, name)]

\* EffectManager.unregister(name)
unregister(m, name) ==
    IF ~Has(m.effects, name) THEN m
    ELSE [stopSingleEffect(m, name) EXCEPT !.effects = Without(@, name)]

\* EffectManager.register(name, effect, options): when the manager is
\* running, startSingleEffect is called without streams.
register(m, e) ==
    LET m1 == IF Has(m.effects, e.name) THEN unregister(m, e.name) ELSE m
        m2 == [m1 EXCEPT !.effects = Append(@, e)]
    IN IF m2.isRunning THEN managerStartSingleEffect(m2, e, NoStreams) ELSE m2

RECURSIVE startAll(_, _, _)
startAll(m, k, streams) ==
    IF k > Len(m.effects) THEN m
    ELSE startAll(managerStartSingleEffect(m, m.effects[k], streams), k + 1, streams)

\* EffectManager.start(action$, state$)
start(m, streams) ==
    IF m.isRunning THEN m
    ELSE startAll([m EXCEPT !.isRunning = TRUE, !.started = streams], 1, streams)

\* EffectManager.stop()
stop(m) ==
    IF ~m.isRunning THEN m
    ELSE [m EXCEPT !.subscriptions = <<>>, !.isRunning = FALSE]

\* The subscriber of an effect's output in startSingleEffect:
\* next: (action) => { if (action && action.type) logger.debug(...) }.
managerNext(m, name, type) ==
    [m EXCEPT !.produced = Append(@, [name |-> name, type |-> type])]

RECURSIVE emitAll(_, _, _, _)
\* An action of the given type appears on the action stream: every effect
\* subscribed to that stream whose filter matches emits.
emitAll(m, k, streams, type) ==
    IF k > Len(m.subscriptions) THEN m
    ELSE LET s == m.subscriptions[k]
         IN emitAll(IF s.streams = streams /\ s.trigger = type
                    THEN managerNext(m, s.name, s.emit) ELSE m,
                    k + 1, streams, type)

Constructed(fx) ==
    LET r == startEffects([effects |-> fx, observers |-> <<>>, pending |-> <<>>,
                           cancelled |-> [n \in EffectNames |-> 0], dead |-> {},
                           threw |-> FALSE])
    IN [r EXCEPT !.observers = Append(@, ExternalObserver)]

Init ==
    /\ state = initialState
    /\ \E c \in StoreConfigs : middleware = c.middleware /\ effects = c.effects
    /\ observers = Constructed(effects).observers
    /\ pending = <<>>
    /\ threw = FALSE
    /\ nextRef = 1
    /\ nextSeq = 1
    /\ calls = <<>>
    /\ actionLog = [n \in ObserverNames |-> <<>>]
    /\ stateLog = <<>>
    /\ hookLog = <<>>
    /\ triggers = [n \in EffectNames |-> 0]
    /\ emitted = [n \in EffectNames |-> 0]
    /\ cancelled = [n \in EffectNames |-> 0]
    /\ callCount = 0
    /\ linkLog = <<>>
    /\ reducerName = "reducer"
    /\ reconfig = <<>>
    /\ removed = {}
    /\ dead = {}
    /\ setupThrew = Constructed(effects).threw
    /\ stateObservers = <<>>
    /\ signalCache = [k \in CacheKeys |-> 0]
    /\ signalValue = <<>>
    /\ selects = <<>>
    /\ destroys = <<>>
    /\ now = 0
    /\ timers = <<>>
    /\ debounceMap = [t \in ValidTypes |-> 0]
    /\ debounceLog = <<>>
    /\ manager = NoManager
    /\ workLog = <<>>
    /\ builder = NoBuilder
    /\ builds = <<>>
    /\ rootState = NoTree
    /\ rootLog = <<>>
    /\ runtime = BrowserRuntime
    /\ streamLog = <<>>
    /\ wallClock = 0
    /\ uuidState = NoUuidState
    /\ created = <<>>
    /\ heap = <<>>
    /\ stores = <<>>
    /\ edits = <<>>
    /\ retry = NoRetry

Commit(w) ==
    /\ state' = w.state
    /\ pending' = w.pending
    /\ nextRef' = w.nextRef
    /\ nextSeq' = w.nextSeq
    /\ calls' = w.calls
    /\ actionLog' = w.actionLog
    /\ stateLog' = w.stateLog
    /\ hookLog' = w.hookLog
    /\ triggers' = w.triggers
    /\ emitted' = w.emitted
    /\ linkLog' = w.linkLog
    /\ dead' = w.dead
    /\ stateObservers' = w.stateObservers
    /\ signalValue' = w.signalValue
    /\ timers' = w.timers
    /\ debounceMap' = w.debounceMap
    /\ debounceLog' = w.debounceLog
    /\ workLog' = w.workLog
    /\ streamLog' = w.streamLog

\* store.dispatch(in), called from application code
Dispatch(in) ==
    /\ callCount < MaxCalls
    /\ LET w == dispatch(World, in, "ext")
       IN /\ Commit(w)
          /\ threw' = w.threw
    /\ callCount' = callCount + 1
    /\ UNCHANGED <<middleware, effects, observers, cancelled, reducerName, reconfig, removed,
                   setupThrew,
                   signalCache, selects, destroys,
                   now, manager, builder, builds, rootState, rootLog, runtime,
                   wallClock, uuidState, created, heap, stores, edits, retry>>

\* The asynchronous work of pending[k] resolves: the effect's output stream
\* emits, its subscriber dispatches, and the work completes.
EffectEmit(k) ==
    /\ callCount < MaxCalls
    /\ k \in 1..Len(pending)
    /\ pending[k].started
    /\ LET p == pending[k]
           s == [kind |-> "effect", name |-> p.name, trigger |-> "", emit |-> p.type,
                 sync |-> FALSE, fault |-> "none", strategy |-> p.strategy]
           w == effectNext([World EXCEPT !.workLog =
                                Append(@, Work("emitted", p.name, p.by))], s)
       IN Commit(complete(w, p))
    /\ callCount' = callCount + 1
    /\ UNCHANGED <<middleware, effects, observers, threw, cancelled, reducerName,
                   reconfig, removed, setupThrew,
                   signalCache, selects, destroys,
                   now, manager, builder, builds, rootState, rootLog, runtime,
                   wallClock, uuidState, created, heap, stores, edits, retry>>

\* store.addEffect(e.name, e), called from application code
AddEffect(e) ==
    /\ callCount < MaxCalls
    /\ LET r == addEffect(Registry, e)
       IN /\ effects' = r.effects
          /\ observers' = r.observers
          /\ pending' = r.pending
          /\ cancelled' = r.cancelled
          /\ dead' = r.dead
          /\ setupThrew' = (setupThrew \/ r.threw)
    /\ removed' = IF \E i \in 1..Len(effects) : effects[i].name = e.name
                  THEN removed \cup {e.name}
                  ELSE removed
    /\ callCount' = callCount + 1
    /\ UNCHANGED <<state, middleware, threw, nextRef, nextSeq, calls, actionLog,
                   stateLog, hookLog, triggers, emitted, linkLog, reducerName, reconfig,
                   stateObservers, signalCache, signalValue, selects, destroys,
                   now, timers, debounceMap, debounceLog, manager, workLog, builder,
                   builds, rootState, rootLog, runtime, streamLog, wallClock,
                   uuidState, created, heap, stores, edits, retry>>

\* What a reconfiguration call leaves alone: the state and both streams.
Untouched ==
    UNCHANGED <<state, pending, threw, nextRef, nextSeq, calls, actionLog, stateLog,
                hookLog, triggers, emitted, linkLog, dead,
                   stateObservers, signalCache, signalValue, selects, destroys,
                   now, timers, debounceMap, debounceLog, manager, workLog, builder,
                   builds, rootState, rootLog, runtime, streamLog, wallClock,
                   uuidState, created, heap, stores, edits, retry>>

\* The names of the middlewares ms, in order.
Names(ms) == [i \in 1..Len(ms) |-> ms[i].name]

\* The record of a reconfiguration call: what was registered before it, and
\* the state and the streams' lengths when it was made.
Reconfigured(op, arg) ==
    [op |-> op, arg |-> arg, at |-> nextSeq, before |-> Names(middleware),
     state |-> state, emits |-> Len(stateLog),
     actions |-> [n \in ObserverNames |-> Len(actionLog[n])]]

\* Middlewares application code adds and removes.
AddableMiddleware == {Mw("A", "hooks"), Mw("B", "hooks")}

\* store.addMiddleware(m), called from application code
AddMiddleware(m) ==
    /\ callCount < MaxCalls
    /\ middleware' = addMiddleware(middleware, m)
    /\ reconfig' = Append(reconfig, Reconfigured("addMiddleware", m.name))
    /\ callCount' = callCount + 1
    /\ Untouched
    /\ setupThrew' = (setupThrew \/ setupMiddleware(middleware'))
    /\ UNCHANGED <<effects, observers, cancelled, reducerName, removed>>

\* store.removeMiddleware(m), called from application code
RemoveMiddleware(m) ==
    /\ callCount < MaxCalls
    /\ middleware' = removeMiddleware(middleware, m)
    /\ reconfig' = Append(reconfig, Reconfigured("removeMiddleware", m.name))
    /\ callCount' = callCount + 1
    /\ Untouched
    /\ setupThrew' = (setupThrew \/ setupMiddleware(middleware'))
    /\ UNCHANGED <<effects, observers, cancelled, reducerName, removed>>

\* store.replaceReducer(n), called from application code
ReplaceReducer(n) ==
    /\ callCount < MaxCalls
    /\ reducerName' = replaceReducer(reducerName, n)
    /\ reconfig' = Append(reconfig, Reconfigured("replaceReducer", n))
    /\ callCount' = callCount + 1
    /\ Untouched
    /\ UNCHANGED <<middleware, effects, observers, cancelled, removed, setupThrew>>

\* store.removeEffect(n), called from application code
RemoveEffect(n) ==
    /\ callCount < MaxCalls
    /\ LET r == removeEffect(Registry, n)
       IN /\ effects' = r.effects
          /\ observers' = r.observers
          /\ pending' = r.pending
          /\ cancelled' = r.cancelled
          /\ dead' = r.dead
    /\ removed' = removed \cup {n}
    /\ callCount' = callCount + 1
    /\ UNCHANGED <<state, middleware, threw, nextRef, nextSeq, calls, actionLog,
                   stateLog, hookLog, triggers, emitted, linkLog, reducerName, reconfig,
                   setupThrew,
                   stateObservers, signalCache, signalValue, selects, destroys,
                   now, timers, debounceMap, debounceLog, manager, workLog, builder,
                   builds, rootState, rootLog, runtime, streamLog, wallClock,
                   uuidState, created, heap, stores, edits, retry>>

Next ==
    \/ \E in \in Inputs : Dispatch(in)
    \/ \E e \in AddableEffects : AddEffect(e)
    \/ \E k \in 1..MaxCalls : EffectEmit(k)

Spec == Init /\ [][Next]_vars

\* ------------------------------------------------------------------------
\* The Store under dynamic reconfiguration
\* ------------------------------------------------------------------------
ReconfigConfigs ==
    {[middleware |-> <<>>, effects |-> <<>>],
     [middleware |-> <<Mw("A", "hooks")>>, effects |-> <<>>],
     [middleware |-> <<Mw("B", "hooks"), Mw("A", "hooks")>>, effects |-> <<>>],
     [middleware |-> <<>>,
      effects |-> <<Fx("E1", "UNKNOWN", "INCREMENT", TRUE),
                    Fx("E2", "INCREMENT", "SET_COUNTER", FALSE)>>],
     [middleware |-> <<Mw("A", "hooks")>>,
      effects |-> <<Fx("E1", "INCREMENT", "SET_COUNTER", FALSE)>>]}

ReconfigInputs ==
    {[nil |-> FALSE, type |-> t] : t \in {"INCREMENT", "SET_COUNTER", "FAULTY"}}

InitReconfig ==
    /\ state = initialState
    /\ \E c \in ReconfigConfigs : middleware = c.middleware /\ effects = c.effects
    /\ observers = Constructed(effects).observers
    /\ pending = <<>>
    /\ threw = FALSE
    /\ nextRef = 1
    /\ nextSeq = 1
    /\ calls = <<>>
    /\ actionLog = [n \in ObserverNames |-> <<>>]
    /\ stateLog = <<>>
    /\ hookLog = <<>>
    /\ triggers = [n \in EffectNames |-> 0]
    /\ emitted = [n \in EffectNames |-> 0]
    /\ cancelled = [n \in EffectNames |-> 0]
    /\ callCount = 0
    /\ linkLog = <<>>
    /\ reducerName = "reducer"
    /\ reconfig = <<>>
    /\ removed = {}
    /\ dead = {}
    /\ setupThrew = Constructed(effects).threw
    /\ stateObservers = <<>>
    /\ signalCache = [k \in CacheKeys |-> 0]
    /\ signalValue = <<>>
    /\ selects = <<>>
    /\ destroys = <<>>
    /\ now = 0
    /\ timers = <<>>
    /\ debounceMap = [t \in ValidTypes |-> 0]
    /\ debounceLog = <<>>
    /\ manager = NoManager
    /\ workLog = <<>>
    /\ builder = NoBuilder
    /\ builds = <<>>
    /\ rootState = NoTree
    /\ rootLog = <<>>
    /\ runtime = BrowserRuntime
    /\ streamLog = <<>>
    /\ wallClock = 0
    /\ uuidState = NoUuidState
    /\ created = <<>>
    /\ heap = <<>>
    /\ stores = <<>>
    /\ edits = <<>>
    /\ retry = NoRetry

NextReconfig ==
    \/ \E in \in ReconfigInputs : Dispatch(in)
    \/ \E k \in 1..MaxCalls : EffectEmit(k)
    \/ \E m \in AddableMiddleware : AddMiddleware(m)
    \/ \E m \in AddableMiddleware : RemoveMiddleware(m)
    \/ \E n \in ReducerNames : ReplaceReducer(n)
    \/ \E n \in EffectNames : RemoveEffect(n)

SpecReconfig == InitReconfig /\ [][NextReconfig]_vars

\* ------------------------------------------------------------------------
\* The Store with effects that fail
\* ------------------------------------------------------------------------
\* E1 is the effect that fails, E2 the one registered beside it.
FaultConfigs ==
    {[middleware |-> <<>>,
      effects |-> <<FaultyFx("E1", "INCREMENT", "stream"),
                    Fx("E2", "INCREMENT", "SET_COUNTER", TRUE)>>],
     [middleware |-> <<>>,
      effects |-> <<FaultyFx("E1", "INCREMENT", "invoke"),
                    Fx("E2", "INCREMENT", "SET_COUNTER", FALSE)>>],
     [middleware |-> <<Mw("A", "hooks")>>,
      effects |-> <<Fx("E2", "UNKNOWN", "INCREMENT", TRUE)>>],
     [middleware |-> <<>>,
      effects |-> <<FaultyFx("E1", "UNKNOWN", "stream")>>]}

FaultyAddable ==
    {FaultyFx("E1", "INCREMENT", "stream"), FaultyFx("E1", "UNKNOWN", "invoke")}

InitFaults ==
    /\ state = initialState
    /\ \E c \in FaultConfigs : middleware = c.middleware /\ effects = c.effects
    /\ observers = Constructed(effects).observers
    /\ pending = <<>>
    /\ threw = FALSE
    /\ nextRef = 1
    /\ nextSeq = 1
    /\ calls = <<>>
    /\ actionLog = [n \in ObserverNames |-> <<>>]
    /\ stateLog = <<>>
    /\ hookLog = <<>>
    /\ triggers = [n \in EffectNames |-> 0]
    /\ emitted = [n \in EffectNames |-> 0]
    /\ cancelled = [n \in EffectNames |-> 0]
    /\ callCount = 0
    /\ linkLog = <<>>
    /\ reducerName = "reducer"
    /\ reconfig = <<>>
    /\ removed = {}
    /\ dead = {}
    /\ setupThrew = Constructed(effects).threw
    /\ stateObservers = <<>>
    /\ signalCache = [k \in CacheKeys |-> 0]
    /\ signalValue = <<>>
    /\ selects = <<>>
    /\ destroys = <<>>
    /\ now = 0
    /\ timers = <<>>
    /\ debounceMap = [t \in ValidTypes |-> 0]
    /\ debounceLog = <<>>
    /\ manager = NoManager
    /\ workLog = <<>>
    /\ builder = NoBuilder
    /\ builds = <<>>
    /\ rootState = NoTree
    /\ rootLog = <<>>
    /\ runtime = BrowserRuntime
    /\ streamLog = <<>>
    /\ wallClock = 0
    /\ uuidState = NoUuidState
    /\ created = <<>>
    /\ heap = <<>>
    /\ stores = <<>>
    /\ edits = <<>>
    /\ retry = NoRetry

NextFaults ==
    \/ \E in \in Inputs : Dispatch(in)
    \/ \E e \in FaultyAddable : AddEffect(e)
    \/ \E k \in 1..MaxCalls : EffectEmit(k)

SpecFaults == InitFaults /\ [][NextFaults]_vars

\* ------------------------------------------------------------------------
\* The Store with signals, a subscriber of state$, and destroy
\* ------------------------------------------------------------------------
SignalConfigs ==
    {[middleware |-> <<>>, effects |-> <<>>],
     [middleware |-> <<>>,
      effects |-> <<Fx("E1", "INCREMENT", "SET_COUNTER", FALSE)>>]}

SignalInputs == {[nil |-> FALSE, type |-> t] : t \in {"INCREMENT", "SET_COUNTER"}}

\* store.select(selector, { key }), called from application code
Select(key, selector) ==
    /\ callCount < MaxCalls
    /\ LET p == createSignal(Projector, key, selector)
       IN /\ signalCache' = p.signalCache
          /\ signalValue' = p.signalValue
          /\ stateObservers' = p.stateObservers
          /\ selects' = Append(selects, [key |-> key, selector |-> selector,
                                         handle |-> p.returned,
                                         life |-> Len(destroys),
                                         memo |-> FALSE,
                                         failed |-> p.failed,
                                         cached |-> p.signalCache[cacheKeyOf(key, selector)] # 0,
                                         subscribed |-> Len(p.stateObservers)
                                                            - Len(stateObservers)])
    /\ callCount' = callCount + 1
    /\ UNCHANGED <<state, middleware, effects, observers, pending, threw, nextRef,
                   nextSeq, calls, actionLog, stateLog, hookLog, triggers, emitted,
                   cancelled, linkLog, reducerName, reconfig, removed, dead,
                   setupThrew, destroys,
                   now, timers, debounceMap, debounceLog, manager, workLog, builder,
                   builds, rootState, rootLog, runtime, streamLog, wallClock,
                   uuidState, created, heap, stores, edits, retry>>

\* store.destroy(), called from application code
Destroy ==
    /\ callCount < MaxCalls
    /\ LET d == destroy(Lifecycle)
       IN /\ observers' = d.observers
          /\ dead' = d.dead
          /\ pending' = d.pending
          /\ cancelled' = d.cancelled
          /\ stateObservers' = d.stateObservers
          /\ signalCache' = d.signalCache
          /\ destroys' = Append(destroys,
                 [changed |-> {f \in DOMAIN Lifecycle : d[f] # Lifecycle[f]},
                  selects |-> Len(selects),
                  cached |-> {k \in CacheKeys : d.signalCache[k] # 0},
                  inFlight |-> Len(pending),
                  actions |-> actionLog,
                  emits |-> Len(stateLog),
                  values |-> signalValue,
                  calls |-> Len(calls)])
    /\ callCount' = callCount + 1
    /\ UNCHANGED <<state, middleware, effects, threw, nextRef, nextSeq, calls,
                   actionLog, stateLog, hookLog, triggers, emitted, linkLog,
                   reducerName, reconfig, removed, setupThrew, signalValue, selects,
                   now, timers, debounceMap, debounceLog, manager, workLog, builder,
                   builds, rootState, rootLog, runtime, streamLog, wallClock,
                   uuidState, created, heap, stores, edits, retry>>

InitSignals ==
    /\ state = initialState
    /\ \E c \in SignalConfigs : middleware = c.middleware /\ effects = c.effects
    /\ observers = Constructed(effects).observers
    /\ pending = <<>>
    /\ threw = FALSE
    /\ nextRef = 1
    /\ nextSeq = 1
    /\ calls = <<>>
    /\ actionLog = [n \in ObserverNames |-> <<>>]
    /\ stateLog = <<>>
    /\ hookLog = <<>>
    /\ triggers = [n \in EffectNames |-> 0]
    /\ emitted = [n \in EffectNames |-> 0]
    /\ cancelled = [n \in EffectNames |-> 0]
    /\ callCount = 0
    /\ linkLog = <<>>
    /\ reducerName = "reducer"
    /\ reconfig = <<>>
    /\ removed = {}
    /\ dead = {}
    /\ setupThrew = Constructed(effects).threw
    /\ stateObservers \in {<<>>, <<Reactor>>}
    /\ signalCache = [k \in CacheKeys |-> 0]
    /\ signalValue = <<>>
    /\ selects = <<>>
    /\ destroys = <<>>
    /\ now = 0
    /\ timers = <<>>
    /\ debounceMap = [t \in ValidTypes |-> 0]
    /\ debounceLog = <<>>
    /\ manager = NoManager
    /\ workLog = <<>>
    /\ builder = NoBuilder
    /\ builds = <<>>
    /\ rootState = NoTree
    /\ rootLog = <<>>
    /\ runtime = BrowserRuntime
    /\ streamLog = <<>>
    /\ wallClock = 0
    /\ uuidState = NoUuidState
    /\ created = <<>>
    /\ heap = <<>>
    /\ stores = <<>>
    /\ edits = <<>>
    /\ retry = NoRetry

NextSignals ==
    \/ \E in \in SignalInputs : Dispatch(in)
    \/ \E k \in 1..MaxCalls : EffectEmit(k)
    \/ \E key \in SignalKeys, f \in Selectors : Select(key, f)
    \/ Destroy

SpecSignals == InitSignals /\ [][NextSignals]_vars

\* ------------------------------------------------------------------------
\* The Store behind a debounce middleware, with a clock
\* ------------------------------------------------------------------------
\* ticks the clock makes
MaxTime == 4

DebounceConfigs ==
    {[middleware |-> <<DebounceMw("D", {"INCREMENT"})>>, effects |-> <<>>],
     [middleware |-> <<DebounceMw("D", {"INCREMENT", "SET_COUNTER"}), Mw("A", "hooks")>>,
      effects |-> <<>>],
     [middleware |-> <<Mw("A", "hooks"), DebounceMw("D", {"INCREMENT"})>>,
      effects |-> <<Fx("E1", "SET_COUNTER", "INCREMENT", TRUE)>>]}

DebounceInputs == {[nil |-> FALSE, type |-> t] : t \in {"INCREMENT", "SET_COUNTER"}}

\* The timer timers[k] is due: its callback deletes the type from debounceMap
\* and resolves the promise, and the suspended handleAsyncMiddleware goes on
\* with next(context.action).  What next throws rejects the promise the
\* dispatch call returned.
TimerFire(k) ==
    /\ k \in 1..Len(timers)
    /\ timers[k].deadline <= now
    /\ LET t == timers[k]
           rest == [i \in 1..(Len(timers) - 1) |-> IF i < k THEN timers[i] ELSE timers[i + 1]]
           w == [World EXCEPT !.timers = rest,
                              !.debounceMap[t.key] = 0,
                              !.debounceLog = Append(@, [ev |-> "forwarded", id |-> t.id,
                                                         type |-> t.key, at |-> now])]
       IN Commit(Chain(w, t.action, t.link + 1))
    /\ UNCHANGED <<middleware, effects, observers, threw, cancelled, callCount,
                   reducerName, reconfig, removed, setupThrew, signalCache, selects,
                   destroys, now, manager, builder, builds, rootState, rootLog,
                   runtime, wallClock, uuidState, created, heap, stores, edits, retry>>

\* Time passes; a timer that is due fires before the clock moves on.
Tick ==
    /\ now < MaxTime
    /\ \A k \in 1..Len(timers) : timers[k].deadline > now
    /\ now' = now + 1
    /\ UNCHANGED <<state, middleware, effects, observers, pending, threw, nextRef,
                   nextSeq, calls, actionLog, stateLog, hookLog, triggers, emitted,
                   cancelled, callCount, linkLog, reducerName, reconfig, removed, dead,
                   setupThrew, stateObservers, signalCache, signalValue, selects,
                   destroys, timers, debounceMap, debounceLog, manager, workLog,
                   builder, builds, rootState, rootLog, runtime, streamLog, wallClock,
                   uuidState, created, heap, stores, edits, retry>>

InitDebounce ==
    /\ state = initialState
    /\ \E c \in DebounceConfigs : middleware = c.middleware /\ effects = c.effects
    /\ observers = Constructed(effects).observers
    /\ pending = <<>>
    /\ threw = FALSE
    /\ nextRef = 1
    /\ nextSeq = 1
    /\ calls = <<>>
    /\ actionLog = [n \in ObserverNames |-> <<>>]
    /\ stateLog = <<>>
    /\ hookLog = <<>>
    /\ triggers = [n \in EffectNames |-> 0]
    /\ emitted = [n \in EffectNames |-> 0]
    /\ cancelled = [n \in EffectNames |-> 0]
    /\ callCount = 0
    /\ linkLog = <<>>
    /\ reducerName = "reducer"
    /\ reconfig = <<>>
    /\ removed = {}
    /\ dead = {}
    /\ setupThrew = Constructed(effects).threw
    /\ stateObservers = <<>>
    /\ signalCache = [k \in CacheKeys |-> 0]
    /\ signalValue = <<>>
    /\ selects = <<>>
    /\ destroys = <<>>
    /\ now = 0
    /\ timers = <<>>
    /\ debounceMap = [t \in ValidTypes |-> 0]
    /\ debounceLog = <<>>
    /\ manager = NoManager
    /\ workLog = <<>>
    /\ builder = NoBuilder
    /\ builds = <<>>
    /\ rootState = NoTree
    /\ rootLog = <<>>
    /\ runtime = BrowserRuntime
    /\ streamLog = <<>>
    /\ wallClock = 0
    /\ uuidState = NoUuidState
    /\ created = <<>>
    /\ heap = <<>>
    /\ stores = <<>>
    /\ edits = <<>>
    /\ retry = NoRetry

NextDebounce ==
    \/ \E in \in DebounceInputs : Dispatch(in)
    \/ \E k \in 1..(MaxCalls + MaxCalls) : TimerFire(k)
    \/ Tick

SpecDebounce == InitDebounce /\ [][NextDebounce]_vars


\* ------------------------------------------------------------------------
\* The Effect manager on its own
\* ------------------------------------------------------------------------
\* Every variable of the Store.
OnlyManager ==
    UNCHANGED <<state, middleware, effects, observers, pending, threw, nextRef, nextSeq,
                calls, actionLog, stateLog, hookLog, triggers, emitted, cancelled,
                callCount, linkLog, reducerName, reconfig, removed, dead, setupThrew,
                stateObservers, signalCache, signalValue, selects, destroys,
                now, timers, debounceMap, debounceLog, workLog, builder, builds,
                   rootState, rootLog, runtime, streamLog, wallClock, uuidState,
                   created, heap, stores, edits, retry>>

\* A Store just constructed with the configuration c.
StoreConstructed(c) ==
    /\ state = initialState
    /\ middleware = c.middleware
    /\ effects = c.effects
    /\ observers = Constructed(effects).observers
    /\ pending = <<>>
    /\ threw = FALSE
    /\ nextRef = 1
    /\ nextSeq = 1
    /\ calls = <<>>
    /\ actionLog = [n \in ObserverNames |-> <<>>]
    /\ stateLog = <<>>
    /\ hookLog = <<>>
    /\ triggers = [n \in EffectNames |-> 0]
    /\ emitted = [n \in EffectNames |-> 0]
    /\ cancelled = [n \in EffectNames |-> 0]
    /\ callCount = 0
    /\ linkLog = <<>>
    /\ reducerName = (IF "reducer" \in DOMAIN c THEN c.reducer ELSE "reducer")
    /\ reconfig = <<>>
    /\ removed = {}
    /\ dead = {}
    /\ setupThrew = (setupMiddleware(middleware) \/ Constructed(effects).threw)
    /\ stateObservers = <<>>
    /\ signalCache = [k \in CacheKeys |-> 0]
    /\ signalValue = <<>>
    /\ selects = <<>>
    /\ destroys = <<>>
    /\ now = 0
    /\ timers = <<>>
    /\ debounceMap = [t \in ValidTypes |-> 0]
    /\ debounceLog = <<>>

\* A Store without middleware and effects.
StoreAtRest == StoreConstructed([middleware |-> <<>>, effects |-> <<>>])

ManagerEffects ==
    {MFx("M1", "INCREMENT", "SET_COUNTER", TRUE),
     MFx("M1", "INCREMENT", "SET_COUNTER", FALSE),
     MFx("M2", "SET_COUNTER", "UNKNOWN", TRUE),
     MFx("M2", "INCREMENT", "UNKNOWN", TRUE)}

ManagerNames == {e.name : e \in ManagerEffects}

\* manager.register(e.name, effect, { enabled })
Register(e) ==
    /\ manager.calls < MaxCalls
    /\ manager' = [register(manager, e) EXCEPT !.calls = @ + 1]
    /\ OnlyManager

\* manager.unregister(n)
Unregister(n) ==
    /\ manager.calls < MaxCalls
    /\ manager' = [unregister(manager, n) EXCEPT !.calls = @ + 1]
    /\ OnlyManager

\* manager.start(action$, state$)
Start(streams) ==
    /\ manager.calls < MaxCalls
    /\ manager' = [start(manager, streams) EXCEPT !.calls = @ + 1]
    /\ OnlyManager

\* manager.stop()
Stop ==
    /\ manager.calls < MaxCalls
    /\ manager' = [stop(manager) EXCEPT !.calls = @ + 1]
    /\ OnlyManager

\* An action of type t is emitted on the action stream of the pair.
Publish(streams, t) ==
    /\ manager.calls < MaxCalls
    /\ manager' = [emitAll(manager, 1, streams, t) EXCEPT !.calls = @ + 1]
    /\ OnlyManager

InitManager ==
    /\ StoreAtRest
    /\ manager = NoManager
    /\ workLog = <<>>
    /\ builder = NoBuilder
    /\ builds = <<>>
    /\ rootState = NoTree
    /\ rootLog = <<>>
    /\ runtime = BrowserRuntime
    /\ streamLog = <<>>
    /\ wallClock = 0
    /\ uuidState = NoUuidState
    /\ created = <<>>
    /\ heap = <<>>
    /\ stores = <<>>
    /\ edits = <<>>
    /\ retry = NoRetry

NextManager ==
    \/ \E e \in ManagerEffects : Register(e)
    \/ \E n \in ManagerNames : Unregister(n)
    \/ \E s \in StreamIds : Start(s)
    \/ Stop
    \/ \E s \in StreamIds, t \in {"INCREMENT", "SET_COUNTER"} : Publish(s, t)

SpecManager == InitManager /\ [][NextManager]_vars


\* ------------------------------------------------------------------------
\* The Store with effects that are registered as disabled
\* ------------------------------------------------------------------------
EnabledConfigs ==
    {[middleware |-> <<>>,
      effects |-> <<DisabledFx("E1", "INCREMENT", "SET_COUNTER", TRUE)>>],
     [middleware |-> <<>>,
      effects |-> <<DisabledFx("E1", "INCREMENT", "SET_COUNTER", FALSE),
                    Fx("E2", "UNKNOWN", "INCREMENT", TRUE)>>],
     [middleware |-> <<>>, effects |-> <<Fx("E2", "INCREMENT", "SET_COUNTER", TRUE)>>]}

EnabledAddable ==
    {DisabledFx("E1", "INCREMENT", "SET_COUNTER", TRUE),
     DisabledFx("E2", "UNKNOWN", "SET_COUNTER", TRUE)}

EnabledInputs == {[nil |-> FALSE, type |-> t] : t \in {"INCREMENT", "UNKNOWN"}}

InitEnabled ==
    /\ \E c \in EnabledConfigs : StoreConstructed(c)
    /\ manager = NoManager
    /\ workLog = <<>>
    /\ builder = NoBuilder
    /\ builds = <<>>
    /\ rootState = NoTree
    /\ rootLog = <<>>
    /\ runtime = BrowserRuntime
    /\ streamLog = <<>>
    /\ wallClock = 0
    /\ uuidState = NoUuidState
    /\ created = <<>>
    /\ heap = <<>>
    /\ stores = <<>>
    /\ edits = <<>>
    /\ retry = NoRetry

NextEnabled ==
    \/ \E in \in EnabledInputs : Dispatch(in)
    \/ \E e \in EnabledAddable : AddEffect(e)
    \/ \E n \in EffectNames : RemoveEffect(n)
    \/ \E k \in 1..MaxCalls : EffectEmit(k)

SpecEnabled == InitEnabled /\ [][NextEnabled]_vars

\* ------------------------------------------------------------------------
\* The Store with effects whose asynchronous work runs under a strategy
\* ------------------------------------------------------------------------
StrategyConfigs ==
    {[middleware |-> <<>>, effects |-> <<StrategyFx("E1", "INCREMENT", "SET_COUNTER", s)>>] :
        s \in Strategies}
    \cup
    {[middleware |-> <<>>,
      effects |-> <<StrategyFx("E1", "INCREMENT", "SET_COUNTER", s),
                    StrategyFx("E2", "UNKNOWN", "INCREMENT", "merge")>>] :
        s \in {"switch", "concat"}}

StrategyInputs == {[nil |-> FALSE, type |-> t] : t \in {"INCREMENT", "UNKNOWN"}}

InitStrategies ==
    /\ \E c \in StrategyConfigs : StoreConstructed(c)
    /\ manager = NoManager
    /\ workLog = <<>>
    /\ builder = NoBuilder
    /\ builds = <<>>
    /\ rootState = NoTree
    /\ rootLog = <<>>
    /\ runtime = BrowserRuntime
    /\ streamLog = <<>>
    /\ wallClock = 0
    /\ uuidState = NoUuidState
    /\ created = <<>>
    /\ heap = <<>>
    /\ stores = <<>>
    /\ edits = <<>>
    /\ retry = NoRetry

NextStrategies ==
    \/ \E in \in StrategyInputs : Dispatch(in)
    \/ \E k \in 1..MaxCalls : EffectEmit(k)

SpecStrategies == InitStrategies /\ [][NextStrategies]_vars

\* ------------------------------------------------------------------------
\* A combined reducer applied to state trees
\* ------------------------------------------------------------------------
\* No Store is at work.
StoreIdle ==
    UNCHANGED <<state, middleware, effects, observers, pending, threw, nextRef,
                nextSeq, calls, actionLog, stateLog, hookLog, triggers, emitted,
                cancelled, callCount, linkLog, reducerName, reconfig, removed,
                dead, setupThrew, stateObservers, signalCache, signalValue,
                selects, destroys, now, timers, debounceMap, debounceLog,
                manager, workLog, runtime, streamLog, wallClock, uuidState, created,
                heap, stores, edits, retry>>

\* The branch reducers a map is drawn from.
BranchReducers == {counterReducer, userReducer, sumReducer, clearReducer, noInitReducer}

\* The values a branch of an input state holds.
BranchValues == {Obj(1), Obj(2), NaNValue, Undefined}

\* Reference of the input state tree.
InputRef == 3

\* rootReducer(state, action) for the reducer combineReducers returned: the
\* result becomes the state the next call is given.
Reduce(type) ==
    /\ Len(rootLog) < MaxCalls
    /\ ~combineReducers(builder.keys, builder.reducers).threw
    /\ LET r == rootReducer(builder.keys, builder.reducers, rootState, type)
       IN /\ rootState' = r.state
          /\ rootLog' = Append(rootLog, [keys |-> builder.keys, type |-> type,
                                         input |-> rootState, returned |-> r.returned,
                                         result |-> r.state, threw |-> r.threw])
    /\ UNCHANGED <<builder, builds, runtime, streamLog, wallClock, uuidState, created,
                   heap, stores, edits, retry>>
    /\ StoreIdle

InitCombine ==
    /\ StoreAtRest
    /\ manager = NoManager
    /\ workLog = <<>>
    /\ \E keys \in (SUBSET Keys) \ {{}} : \E rs \in [Keys -> BranchReducers] :
          builder = [NoBuilder EXCEPT !.keys = keys,
                                      !.reducers = [k \in Keys |-> IF k \in keys THEN rs[k]
                                                                   ELSE NotAFunction]]
    /\ builds = <<>>
    /\ \E bs \in [Keys -> BranchValues] : rootState = Tree(InputRef, bs)
    /\ rootLog = <<>>
    /\ runtime = BrowserRuntime
    /\ streamLog = <<>>
    /\ wallClock = 0
    /\ uuidState = NoUuidState
    /\ created = <<>>
    /\ heap = <<>>
    /\ stores = <<>>
    /\ edits = <<>>
    /\ retry = NoRetry

NextCombine == \E type \in TreeActions : Reduce(type)

SpecCombine == InitCombine /\ [][NextCombine]_vars

\* ------------------------------------------------------------------------
\* The Store builder
\* ------------------------------------------------------------------------
\* What applyMiddleware is given: a middleware function, or something else.
BuilderMiddleware == {[name |-> "A", callable |-> TRUE], [name |-> "bad", callable |-> FALSE]}

\* What registerReducer is given.
BuilderReducers == {counterReducer, noInitReducer, NotAFunction}

\* What registerEffect is given.
BuilderEffects == {Fx("E1", "INCREMENT", "SET_COUNTER", TRUE)}

\* The builder's fields change and nothing else.
OnlyBuilder ==
    /\ builder.calls < MaxCalls
    /\ UNCHANGED <<builds, rootState, rootLog, runtime, streamLog, wallClock,
                   uuidState, created, heap, stores, edits, retry>>
    /\ StoreIdle

\* StoreBuilder.registerReducer(key, reducer)
RegisterReducer(k, r) ==
    /\ builder' = [builder EXCEPT !.keys = @ \cup {k}, !.reducers[k] = r, !.calls = @ + 1]
    /\ OnlyBuilder

\* StoreBuilder.removeReducer(key)
RemoveReducer(k) ==
    /\ k \in builder.keys
    /\ builder' = [builder EXCEPT !.keys = @ \ {k}, !.reducers[k] = NotAFunction,
                                  !.calls = @ + 1]
    /\ OnlyBuilder

\* StoreBuilder.applyMiddleware(middleware)
ApplyMiddleware(m) ==
    /\ builder' = [builder EXCEPT !.middleware = Append(@, m), !.calls = @ + 1]
    /\ OnlyBuilder

\* StoreBuilder.registerEffect(name, effect)
RegisterEffect(e) ==
    /\ builder' = [builder EXCEPT !.effects = Append(@, e), !.calls = @ + 1]
    /\ OnlyBuilder

\* names of the subscriptions the constructor of a Store with these effects
\* makes, one for each subscription
Running(fx) ==
    LET obs == SelectSeq(Constructed(fx).observers, LAMBDA o : o.kind = "effect")
    IN [i \in 1..Len(obs) |-> obs[i].name]

\* names of the effects the constructor of a Store with these effects
\* subscribes
StartedBy(fx) ==
    LET obs == Constructed(fx).observers
    IN {obs[i].name : i \in {j \in 1..Len(obs) : obs[j].kind = "effect"}}

\* StoreBuilder.build()
Build ==
    /\ Len(builds) < MaxCalls
    /\ LET r == build(builder, StartedBy(builder.effects))
       IN /\ builds' = Append(builds, [r EXCEPT !.state = NoTree] @@
                                      [keys |-> builder.keys, reducers |-> builder.reducers,
                                       middleware |-> builder.middleware,
                                       effects |-> builder.effects,
                                       running |-> IF r.store THEN Running(builder.effects)
                                                   ELSE <<>>])
          /\ rootState' = IF r.threw THEN rootState ELSE r.state
    /\ UNCHANGED <<builder, rootLog, runtime, streamLog, wallClock, uuidState, created,
                   heap, stores, edits, retry>>
    /\ StoreIdle

InitBuilder ==
    /\ StoreAtRest
    /\ manager = NoManager
    /\ workLog = <<>>
    /\ builder = NoBuilder
    /\ builds = <<>>
    /\ rootState = NoTree
    /\ rootLog = <<>>
    /\ runtime = BrowserRuntime
    /\ streamLog = <<>>
    /\ wallClock = 0
    /\ uuidState = NoUuidState
    /\ created = <<>>
    /\ heap = <<>>
    /\ stores = <<>>
    /\ edits = <<>>
    /\ retry = NoRetry

NextBuilder ==
    \/ \E k \in Keys : \E r \in BuilderReducers : RegisterReducer(k, r)
    \/ \E k \in Keys : RemoveReducer(k)
    \/ \E m \in BuilderMiddleware : ApplyMiddleware(m)
    \/ \E e \in BuilderEffects : RegisterEffect(e)
    \/ Build

SpecBuilder == InitBuilder /\ [][NextBuilder]_vars

\* ------------------------------------------------------------------------
\* The Store in different runtimes
\* ------------------------------------------------------------------------
\* store.selectMemo(selector, { key }), called from application code
SelectMemo(key, selector) ==
    /\ callCount < MaxCalls
    /\ LET p == createMemoSignal(Projector, key, selector)
       IN /\ signalCache' = p.signalCache
          /\ signalValue' = p.signalValue
          /\ stateObservers' = p.stateObservers
          /\ selects' = Append(selects, [key |-> key, selector |-> selector,
                                         handle |-> p.returned,
                                         life |-> Len(destroys),
                                         memo |-> TRUE,
                                         failed |-> p.failed,
                                         cached |-> p.signalCache[memoKeyOf(key, selector)] # 0,
                                         subscribed |-> Len(p.stateObservers)
                                                            - Len(stateObservers)])
    /\ callCount' = callCount + 1
    /\ UNCHANGED <<state, middleware, effects, observers, pending, threw,
                   nextRef, nextSeq, calls, actionLog, stateLog, hookLog,
                   triggers, emitted, cancelled, linkLog, reducerName, reconfig,
                   removed, dead, setupThrew, destroys, now, timers,
                   debounceMap, debounceLog, manager, workLog, builder, builds,
                   rootState, rootLog, runtime, streamLog, wallClock, uuidState,
                   created, heap, stores, edits, retry>>

\* store.selectState(selector).subscribe(...), called from application code:
\* _state$ hands the subscriber the current state at once.
SelectState(selector) ==
    /\ callCount < MaxCalls
    /\ ~Destroyed
    /\ \A i \in 1..Len(stateObservers) :
          ~(stateObservers[i].kind = "stream" /\ stateObservers[i].selector = selector)
    /\ IF Throws(selector, state)
       THEN UNCHANGED <<stateObservers, streamLog>>
       ELSE /\ stateObservers' = Append(stateObservers,
                                        [kind |-> "stream", handle |-> 0,
                                         selector |-> selector])
            /\ streamLog' = Append(streamLog,
                                   [selector |-> selector,
                                    value |-> Defined(Project(selector, state)),
                                    at |-> Len(stateLog), first |-> TRUE])
    /\ callCount' = callCount + 1
    /\ UNCHANGED <<state, middleware, effects, observers, pending, threw,
                   nextRef, nextSeq, calls, actionLog, stateLog, hookLog,
                   triggers, emitted, cancelled, linkLog, reducerName, reconfig,
                   removed, dead, setupThrew, signalCache, signalValue, selects,
                   destroys, now, timers, debounceMap, debounceLog, manager,
                   workLog, builder, builds, rootState, rootLog, runtime,
                   wallClock, uuidState, created, heap, stores, edits, retry>>

\* The runtimes: a browser with solid-js, with and without enableSignals; a
\* browser where solid-js is missing or fails; a server.
Runtimes ==
    {Runtime("browser", "ok", TRUE), Runtime("browser", "ok", FALSE),
     Runtime("browser", "missing", TRUE), Runtime("browser", "throws", TRUE),
     Runtime("node", "ok", TRUE), Runtime("node", "missing", FALSE)}

RuntimeConfigs ==
    {[middleware |-> <<>>, effects |-> <<>>],
     [middleware |-> <<>>, effects |-> <<Fx("E1", "INCREMENT", "SET_COUNTER", TRUE)>>]}

RuntimeInputs == {[nil |-> FALSE, type |-> t] : t \in {"INCREMENT", "SET_COUNTER"}}

\* the selections application code makes
RuntimeSelects == {<<"", "count">>, <<"", "picky">>, <<"k1", "picky">>, <<"", "thunk">>}

InitRuntime ==
    /\ \E c \in RuntimeConfigs : StoreConstructed(c)
    /\ manager = NoManager
    /\ workLog = <<>>
    /\ builder = NoBuilder
    /\ builds = <<>>
    /\ rootState = NoTree
    /\ rootLog = <<>>
    /\ runtime \in Runtimes
    /\ streamLog = <<>>
    /\ wallClock = 0
    /\ uuidState = NoUuidState
    /\ created = <<>>
    /\ heap = <<>>
    /\ stores = <<>>
    /\ edits = <<>>
    /\ retry = NoRetry

NextRuntime ==
    \/ \E in \in RuntimeInputs : Dispatch(in)
    \/ \E s \in RuntimeSelects : Select(s[1], s[2])
    \/ \E s \in RuntimeSelects : SelectMemo(s[1], s[2])
    \/ \E f \in {"count", "picky"} : SelectState(f)

SpecRuntime == InitRuntime /\ [][NextRuntime]_vars

\* ------------------------------------------------------------------------
\* Action creators under a wall clock
\* ------------------------------------------------------------------------
\* Nothing but the clock and the creators is at work.
OnlyCreators ==
    UNCHANGED <<state, middleware, effects, observers, pending, threw, nextRef,
                nextSeq, calls, actionLog, stateLog, hookLog, triggers, emitted,
                cancelled, callCount, linkLog, reducerName, reconfig, removed,
                dead, setupThrew, stateObservers, signalCache, signalValue,
                selects, destroys, now, timers, debounceMap, debounceLog,
                manager, workLog, builder, builds, rootState, rootLog, runtime,
                streamLog, heap, stores, edits, retry>>

\* An action creator is called.
Create(c) ==
    /\ Len(created) < MaxCalls
    /\ \E rnd \in 0..(SeqLimit - 1) :
          LET st == IF c = "configured" THEN uuidState
                    ELSE updateV7State(uuidState, wallClock, rnd)
          IN /\ uuidState' = st
             /\ created' = Append(created, actionCreator(c, wallClock, st))
    /\ UNCHANGED wallClock
    /\ OnlyCreators

\* A millisecond passes.
ClockAdvance ==
    /\ wallClock < MaxTime
    /\ wallClock' = wallClock + 1
    /\ UNCHANGED <<uuidState, created, heap, stores, edits, retry>>
    /\ OnlyCreators

\* The system clock is set back by a millisecond.
ClockStepBack ==
    /\ wallClock > 0
    /\ wallClock' = wallClock - 1
    /\ UNCHANGED <<uuidState, created, heap, stores, edits, retry>>
    /\ OnlyCreators

InitActions ==
    /\ StoreAtRest
    /\ manager = NoManager
    /\ workLog = <<>>
    /\ builder = NoBuilder
    /\ builds = <<>>
    /\ rootState = NoTree
    /\ rootLog = <<>>
    /\ runtime = BrowserRuntime
    /\ streamLog = <<>>
    /\ wallClock = 0
    /\ uuidState = NoUuidState
    /\ created = <<>>
    /\ heap = <<>>
    /\ stores = <<>>
    /\ edits = <<>>
    /\ retry = NoRetry

NextActions ==
    \/ \E c \in Creators : Create(c)
    \/ ClockAdvance
    \/ ClockStepBack

SpecActions == InitActions /\ [][NextActions]_vars

\* ------------------------------------------------------------------------
\* The Store with subscribers that dispatch from inside their callbacks
\* ------------------------------------------------------------------------
ReentrantConfigs ==
    {[middleware |-> <<>>, effects |-> <<Fx("E1", "INCREMENT", "SET_COUNTER", TRUE)>>],
     [middleware |-> <<>>,
      effects |-> <<Fx("E1", "SET_COUNTER", "INCREMENT", TRUE),
                    Fx("E2", "INCREMENT", "UNDEFINED", TRUE)>>],
     [middleware |-> <<>>, effects |-> <<Fx("E1", "FAULTY", "INCREMENT", FALSE)>>]}

ReentrantInputs ==
    {[nil |-> FALSE, type |-> t] : t \in {"INCREMENT", "SET_COUNTER", "FAULTY"}}

\* store.subscribe(observer) with an observer that dispatches when it sees
\* the first increment: _state$ adds the observer and hands it the current
\* state at once.
Subscribe ==
    /\ callCount < MaxCalls
    /\ ~Destroyed
    /\ \A i \in 1..Len(stateObservers) : stateObservers[i] # Reactor
    /\ LET w == [World EXCEPT !.stateObservers = Append(@, Reactor)]
       IN Commit(stateObserverNext(w, Reactor, state))
    /\ callCount' = callCount + 1
    /\ UNCHANGED <<middleware, effects, observers, threw, cancelled, reducerName,
                   reconfig, removed, setupThrew,
                   signalCache, selects, destroys,
                   now, manager, builder, builds, rootState, rootLog, runtime,
                   wallClock, uuidState, created, heap, stores, edits, retry>>

InitReentrant ==
    /\ \E c \in ReentrantConfigs : StoreConstructed(c)
    /\ manager = NoManager
    /\ workLog = <<>>
    /\ builder = NoBuilder
    /\ builds = <<>>
    /\ rootState = NoTree
    /\ rootLog = <<>>
    /\ runtime = BrowserRuntime
    /\ streamLog = <<>>
    /\ wallClock = 0
    /\ uuidState = NoUuidState
    /\ created = <<>>
    /\ heap = <<>>
    /\ stores = <<>>
    /\ edits = <<>>
    /\ retry = NoRetry

NextReentrant ==
    \/ \E in \in ReentrantInputs : Dispatch(in)
    \/ Subscribe
    \/ \E k \in 1..MaxCalls : EffectEmit(k)

SpecReentrant == InitReentrant /\ [][NextReentrant]_vars

\* ------------------------------------------------------------------------
\* A Store over a reducer built with createReducer
\* ------------------------------------------------------------------------
CreatedConfigs ==
    {[middleware |-> <<>>, effects |-> <<>>, reducer |-> "createdReducer"],
     [middleware |-> <<>>, effects |-> <<Fx("E1", "FAULTY", "INCREMENT", FALSE)>>,
      reducer |-> "createdReducer"],
     [middleware |-> <<>>, effects |-> <<Fx("E1", "INCREMENT", "SET_COUNTER", FALSE)>>,
      reducer |-> "createdReducer"]}

CreatedInputs ==
    {[nil |-> FALSE, type |-> t] : t \in {"INCREMENT", "SET_COUNTER", "FAULTY", "UNKNOWN"}}

InitCreated ==
    /\ \E c \in CreatedConfigs : StoreConstructed(c)
    /\ manager = NoManager
    /\ workLog = <<>>
    /\ builder = NoBuilder
    /\ builds = <<>>
    /\ rootState = NoTree
    /\ rootLog = <<>>
    /\ runtime = BrowserRuntime
    /\ streamLog = <<>>
    /\ wallClock = 0
    /\ uuidState = NoUuidState
    /\ created = <<>>
    /\ heap = <<>>
    /\ stores = <<>>
    /\ edits = <<>>
    /\ retry = NoRetry

NextCreated ==
    \/ \E in \in CreatedInputs : Dispatch(in)
    \/ Subscribe
    \/ \E k \in 1..MaxCalls : EffectEmit(k)

SpecCreated == InitCreated /\ [][NextCreated]_vars

\* ------------------------------------------------------------------------
\* Several Stores built from one StoreBuilder
\* ------------------------------------------------------------------------
SharedMiddleware == {"A", "B"}

SharedEffects == {"E1", "E2"}

\* The builder's own fields: this.middleware = [] and this.effects = [] of
\* its constructor, as addresses in the heap.
BuilderLists == [middleware |-> 1, effects |-> 2]

\* array.indexOf(x) and array.findIndex(e => e.name === x): 0 when absent
IndexOf(array, x) ==
    IF \E i \in 1..Len(array) : array[i] = x
    THEN CHOOSE i \in 1..Len(array) : array[i] = x /\ \A j \in 1..(i - 1) : array[j] # x
    ELSE 0

\* array.splice(i, 1)
Splice(array, i) == [j \in 1..(Len(array) - 1) |-> IF j < i THEN array[j] ELSE array[j + 1]]

\* The lists as a caller reads them: the builder's, and for each Store its
\* middleware and effect lists, the chain dispatch runs and the effects
\* subscribed.
Lists(h, ss) ==
    [builder |-> [middleware |-> h[BuilderLists.middleware],
                  effects |-> h[BuilderLists.effects]],
     stores |-> [i \in 1..Len(ss) |->
                    [middleware |-> h[ss[i].middleware], effects |-> h[ss[i].effects],
                     chain |-> ss[i].chain, running |-> ss[i].running]]]

\* The heap, the Stores and the log of calls change and nothing else.
OnlyShared ==
    UNCHANGED <<state, middleware, effects, observers, pending, threw, nextRef,
                nextSeq, calls, actionLog, stateLog, hookLog, triggers, emitted,
                cancelled, callCount, linkLog, reducerName, reconfig, removed,
                dead, setupThrew, stateObservers, signalCache, signalValue,
                selects, destroys, now, timers, debounceMap, debounceLog,
                manager, workLog, runtime, streamLog, wallClock, uuidState, created,
                builder, builds, rootState, rootLog, retry>>

\* One call is made on the builder (who = 0) or on the Store who.
Edited(who, op, h, ss) ==
    /\ Len(edits) < MaxCalls
    /\ heap' = h
    /\ stores' = ss
    /\ edits' = Append(edits, [who |-> who, op |-> op, before |-> Lists(heap, stores),
                                after |-> Lists(h, ss)])
    /\ OnlyShared

\* StoreBuilder.applyMiddleware(m)
SharedApplyMiddleware(m) ==
    /\ m \in SharedMiddleware
    /\ Edited(0, "applyMiddleware",
              [heap EXCEPT ![BuilderLists.middleware] = Append(@, m)], stores)

\* StoreBuilder.registerEffect(name, effect)
SharedRegisterEffect(n) ==
    /\ n \in SharedEffects
    /\ Edited(0, "registerEffect",
              [heap EXCEPT ![BuilderLists.effects] = Append(@, n)], stores)

\* StoreBuilder.build() and the constructor of EnhancedStore: the Store's
\* fields are the arrays of the configuration, which are the builder's own;
\* setupMiddleware composes the chain and startEffects subscribes each effect.
SharedBuild ==
    /\ validateStoreBuilder(builder) = {}
    /\ Edited(0, "build", heap,
              Append(stores, [middleware |-> BuilderLists.middleware,
                              effects |-> BuilderLists.effects,
                              chain |-> heap[BuilderLists.middleware],
                              running |-> heap[BuilderLists.effects]]))

\* EnhancedStore.addMiddleware(m) on the Store s
StoreAddMiddleware(s, m) ==
    /\ s \in 1..Len(stores)
    /\ LET h == [heap EXCEPT ![stores[s].middleware] = Append(@, m)]
       IN Edited(s, "addMiddleware", h,
                 [stores EXCEPT ![s].chain = h[stores[s].middleware]])

\* EnhancedStore.removeMiddleware(m) on the Store s
StoreRemoveMiddleware(s, m) ==
    /\ s \in 1..Len(stores)
    /\ LET index == IndexOf(heap[stores[s].middleware], m)
           h == [heap EXCEPT ![stores[s].middleware] = Splice(@, index)]
       IN IF index = 0
          THEN Edited(s, "removeMiddleware", heap, stores)
          ELSE Edited(s, "removeMiddleware", h,
                      [stores EXCEPT ![s].chain = h[stores[s].middleware]])

\* the heap after removeEffect(n) of the Store st
removeEffectHeap(h, st, n) ==
    IF IndexOf(h[st.effects], n) = 0 THEN h
    ELSE [h EXCEPT ![st.effects] = Splice(@, IndexOf(h[st.effects], n))]

\* the Store st after removeEffect(n): stopEffects, then startEffects over
\* what the list holds
removeEffectStore(h, st, n) ==
    IF IndexOf(h[st.effects], n) = 0 THEN st
    ELSE [st EXCEPT !.running = removeEffectHeap(h, st, n)[st.effects]]

\* EnhancedStore.removeEffect(n) on the Store s
StoreRemoveEffect(s, n) ==
    /\ s \in 1..Len(stores)
    /\ Edited(s, "removeEffect", removeEffectHeap(heap, stores[s], n),
              [stores EXCEPT ![s] = removeEffectStore(heap, stores[s], n)])

\* EnhancedStore.addEffect(n, effect) on the Store s: an effect of that name
\* is removed first, then the new one is pushed and started.
StoreAddEffect(s, n) ==
    /\ s \in 1..Len(stores)
    /\ LET h1 == removeEffectHeap(heap, stores[s], n)
           s1 == removeEffectStore(heap, stores[s], n)
       IN Edited(s, "addEffect", [h1 EXCEPT ![s1.effects] = Append(@, n)],
                 [stores EXCEPT ![s] = [s1 EXCEPT !.running = Append(@, n)]])

InitShared ==
    /\ StoreAtRest
    /\ manager = NoManager
    /\ workLog = <<>>
    /\ builder = [NoBuilder EXCEPT !.keys = {"counter"}, !.reducers["counter"] = counterReducer]
    /\ builds = <<>>
    /\ rootState = NoTree
    /\ rootLog = <<>>
    /\ runtime = BrowserRuntime
    /\ streamLog = <<>>
    /\ wallClock = 0
    /\ uuidState = NoUuidState
    /\ created = <<>>
    /\ heap = <<<<>>, <<>>>>
    /\ stores = <<>>
    /\ edits = <<>>
    /\ retry = NoRetry

NextShared ==
    \/ \E m \in SharedMiddleware : SharedApplyMiddleware(m)
    \/ \E n \in SharedEffects : SharedRegisterEffect(n)
    \/ SharedBuild
    \/ \E s \in 1..MaxCalls : \E m \in SharedMiddleware : StoreAddMiddleware(s, m)
    \/ \E s \in 1..MaxCalls : \E m \in SharedMiddleware : StoreRemoveMiddleware(s, m)
    \/ \E s \in 1..MaxCalls : \E n \in SharedEffects : StoreAddEffect(s, n)
    \/ \E s \in 1..MaxCalls : \E n \in SharedEffects : StoreRemoveEffect(s, n)

SpecShared == InitShared /\ [][NextShared]_vars

\* ------------------------------------------------------------------------
\* A Store with a middleware that cannot be instantiated
\* ------------------------------------------------------------------------
InstantiateConfigs ==
    {[middleware |-> <<Mw("A", "hooks")>>, effects |-> <<>>],
     [middleware |-> <<Mw("A", "hooks"), ThrowingMw("T")>>, effects |-> <<>>],
     [middleware |-> <<ThrowingMw("T"), Mw("A", "replace")>>, effects |-> <<>>],
     [middleware |-> <<Mw("A", "hooks"), ThrowingMw("T")>>,
      effects |-> <<Fx("E1", "INCREMENT", "SET_COUNTER", TRUE)>>]}

InstantiateInputs ==
    {[nil |-> FALSE, type |-> "INCREMENT"], [nil |-> FALSE, type |-> "FAULTY"],
     [nil |-> TRUE, type |-> ""]}

InstantiateMiddleware == {Mw("B", "hooks"), ThrowingMw("T")}

InitInstantiate ==
    /\ \E c \in InstantiateConfigs : StoreConstructed(c)
    /\ manager = NoManager
    /\ workLog = <<>>
    /\ builder = NoBuilder
    /\ builds = <<>>
    /\ rootState = NoTree
    /\ rootLog = <<>>
    /\ runtime = BrowserRuntime
    /\ streamLog = <<>>
    /\ wallClock = 0
    /\ uuidState = NoUuidState
    /\ created = <<>>
    /\ heap = <<>>
    /\ stores = <<>>
    /\ edits = <<>>
    /\ retry = NoRetry

NextInstantiate ==
    \/ \E in \in InstantiateInputs : Dispatch(in)
    \/ \E m \in InstantiateMiddleware : AddMiddleware(m)
    \/ \E m \in InstantiateMiddleware : RemoveMiddleware(m)

SpecInstantiate == InitInstantiate /\ [][NextInstantiate]_vars

\* ------------------------------------------------------------------------
\* retryWithDelay(count, delayMs) over a source that fails
\* ------------------------------------------------------------------------
\* source$.pipe(retryWithDelay(count, delayMs)).subscribe(...): retryWhen
\* subscribes to the source.
Retrying(count, delayMs) ==
    [NoRetry EXCEPT !.count = count, !.delayMs = delayMs, !.subscribed = TRUE,
                    !.outcome = "open", !.log = <<[ev |-> "subscribe", at |-> 0]>>]

\* The source errors at the time t. On the first error retryWhen subscribes
\* to the notifier errors$.pipe(tap, delay, take(count), concatMap); take(0)
\* is EMPTY, and a notifier that completes completes the result. Otherwise
\* delay holds the error for delayMs.
sourceError(r, t) ==
    LET failed == [r EXCEPT !.clock = t, !.subscribed = FALSE,
                            !.log = Append(@, [ev |-> "failure", at |-> t])]
    IN IF r.count = 0
       THEN [failed EXCEPT !.outcome = "complete",
                           !.log = Append(@, [ev |-> "complete", at |-> t])]
       ELSE [failed EXCEPT !.due = t + r.delayMs]

\* The delayed error leaves delay: take passes it on (and completes with the
\* count-th), concatMap maps the one with index count - 1 to
\* throwError('Max retries exceeded') and every earlier one to of(null), on
\* which retryWhen subscribes to the source again.
notifierNext(r) ==
    LET index == r.taken
        passed == [r EXCEPT !.clock = r.due, !.due = -1, !.taken = index + 1]
    IN IF index = r.count - 1
       THEN [passed EXCEPT !.outcome = "error",
                           !.log = Append(@, [ev |-> "Max retries exceeded", at |-> r.due])]
       ELSE [passed EXCEPT !.subscribed = TRUE,
                           !.log = Append(@, [ev |-> "subscribe", at |-> r.due])]

\* The stream and nothing else changes.
OnlyRetry ==
    UNCHANGED <<state, middleware, effects, observers, pending, threw, nextRef,
                nextSeq, calls, actionLog, stateLog, hookLog, triggers, emitted,
                cancelled, callCount, linkLog, reducerName, reconfig, removed,
                dead, setupThrew, stateObservers, signalCache, signalValue,
                selects, destroys, now, timers, debounceMap, debounceLog,
                manager, workLog, runtime, streamLog, wallClock, uuidState, created,
                builder, builds, rootState, rootLog, heap, stores, edits>>

\* The subscribed source errors, lag ticks after it was subscribed.
SourceFails(lag) ==
    /\ retry.outcome = "open"
    /\ retry.subscribed
    /\ retry' = sourceError(retry, retry.clock + lag)
    /\ OnlyRetry

\* The timer of delay fires.
DelayFires ==
    /\ retry.outcome = "open"
    /\ retry.due >= 0
    /\ retry' = notifierNext(retry)
    /\ OnlyRetry

InitRetry ==
    /\ StoreAtRest
    /\ manager = NoManager
    /\ workLog = <<>>
    /\ builder = NoBuilder
    /\ builds = <<>>
    /\ rootState = NoTree
    /\ rootLog = <<>>
    /\ runtime = BrowserRuntime
    /\ streamLog = <<>>
    /\ wallClock = 0
    /\ uuidState = NoUuidState
    /\ created = <<>>
    /\ heap = <<>>
    /\ stores = <<>>
    /\ edits = <<>>
    /\ \E count \in 0..MaxCalls : \E delayMs \in 1..Interval :
          retry = Retrying(count, delayMs)

NextRetry ==
    \/ \E lag \in 0..Interval : SourceFails(lag)
    \/ DelayFires

SpecRetry == InitRetry /\ [][NextRetry]_vars

\* ------------------------------------------------------------------------
\* Selections without an explicit key
\* ------------------------------------------------------------------------
KeylessSelectors == {"count"} \cup ClosureSelectors

KeylessInputs == {[nil |-> FALSE, type |-> "INCREMENT"]}

InitKeyless ==
    /\ StoreConstructed([middleware |-> <<>>, effects |-> <<>>])
    /\ manager = NoManager
    /\ workLog = <<>>
    /\ builder = NoBuilder
    /\ builds = <<>>
    /\ rootState = NoTree
    /\ rootLog = <<>>
    /\ runtime = BrowserRuntime
    /\ streamLog = <<>>
    /\ wallClock = 0
    /\ uuidState = NoUuidState
    /\ created = <<>>
    /\ heap = <<>>
    /\ stores = <<>>
    /\ edits = <<>>
    /\ retry = NoRetry

NextKeyless ==
    \/ \E in \in KeylessInputs : Dispatch(in)
    \/ \E f \in KeylessSelectors : Select("", f)
    \/ \E f \in KeylessSelectors : SelectMemo("", f)

SpecKeyless == InitKeyless /\ [][NextKeyless]_vars

\* ------------------------------------------------------------------------
\* Properties
\* ------------------------------------------------------------------------
CallIds == 1..Len(calls)

\* The reducer was invoked for call i.
Reduced(i) == calls[i].input # NoState

\* What the reducer returned for call i, computed from the state it was
\* handed and the action that reached it.
Returned(i) == reducer(calls[i].input, [type |-> calls[i].ptype], nextRef)

ReturnedSame(i) ==
    /\ Reduced(i)
    /\ Returned(i).kind = "value"
    /\ Returned(i).state.ref = calls[i].input.ref

ReturnedNew(i) ==
    /\ Reduced(i)
    /\ Returned(i).kind = "value"
    /\ Returned(i).state.ref # calls[i].input.ref

\* Emissions of _state$ produced by call i.
EmissionsBy(i) == {j \in 1..Len(stateLog) : stateLog[j].by = i}

\* Emissions of _state$ that happened between the call and the return of i.
EmissionsDuring(i) == calls[i].emitsAfter - calls[i].emitsBefore

Malformed(i) == calls[i].nil \/ calls[i].type = ""

\* A middleware whose error hook returns a recovery action is installed.
Recovering == \E k \in 1..Len(middleware) : middleware[k].enabled /\ middleware[k].error = "recover"

\* A middleware whose before hook returns a new action is installed.
Replacing == \E k \in 1..Len(middleware) : middleware[k].enabled /\ middleware[k].before = "replace"

\* C1: whenever the reducer returns the very state object s it was handed for
\* an action a, getState() is s when dispatch(a) returns and _state$ has
\* emitted nothing for a.
C1_ReferenceStability ==
    \A i \in CallIds :
        ReturnedSame(i) => /\ calls[i].post = calls[i].input
                           /\ EmissionsBy(i) = {}

\* C1 witness: a no-op action was reduced after a nested dispatch had already
\* replaced the state the call started with.
C1_Witness ==
    \E i \in CallIds :
        /\ ReturnedSame(i)
        /\ calls[i].pre # calls[i].input
        /\ calls[i].post = calls[i].input

\* C2 as claimed: when the reducer throws for a (and no error middleware
\* intercepts), dispatch(a) throws, _state$ emits nothing during the call and
\* getState() afterwards is the state current before the call.
C2_ReducerThrowLeavesPreState ==
    \A i \in CallIds :
        (Reduced(i) /\ Returned(i).kind = "throw" /\ ~Recovering) =>
            /\ calls[i].threw
            /\ EmissionsDuring(i) = 0
            /\ calls[i].post = calls[i].pre

\* C3: when the reducer is invoked for an action, every observer subscribed
\* to _action$ has already received that action, also when the reducer then
\* throws; and every well-formed action that is dispatched is published.
C3_PublishedBeforeReduce ==
    \A i \in CallIds :
        /\ Reduced(i) => /\ calls[i].published
                         /\ calls[i].subscribers # {}
                         /\ calls[i].subscribers \subseteq calls[i].seen
        /\ ~Malformed(i) => calls[i].published
        /\ calls[i].published =>
               \A n \in calls[i].subscribers :
                   \E j \in 1..Len(actionLog[n]) : actionLog[n][j] = i

\* C3 witness: the reducer threw for an action that an effect and the
\* external subscriber had both received.
C3_Witness ==
    \E i \in CallIds :
        /\ Reduced(i)
        /\ Returned(i).kind = "throw"
        /\ calls[i].threw
        /\ Cardinality(calls[i].seen) >= 2

C5_UndefinedKeepsState ==
    \A i \in CallIds :
        (Reduced(i) /\ Returned(i).kind = "undefined") =>
            /\ ~calls[i].threw
            /\ calls[i].post = calls[i].pre
            /\ calls[i].post # NoState
            /\ EmissionsDuring(i) = 0

\* Calls made by application code, as opposed to effects.
External(i) == calls[i].origin = "ext"

\* The action ids observer n received that application code dispatched.
ExternalSeen(n) == SelectSeq(actionLog[n], External)

Increasing(q) == \A j, k \in 1..Len(q) : j < k => q[j] < q[k]

ExternalEmissions == SelectSeq(stateLog, LAMBDA e : External(e.by))

\* C6: actions dispatched one after another by application code reach the
\* subscriber of _action$ in that order, each exactly once, and nothing else
\* reaches it unless an effect dispatched it; _state$ emits the states those
\* actions produced in the same order, exactly one per action whose reducer
\* result is a new object and none for the others.
C6_SequentialOrdering ==
    /\ Increasing(ExternalSeen("obs"))
    /\ {ExternalSeen("obs")[j] : j \in 1..Len(ExternalSeen("obs"))}
           = {i \in CallIds : External(i) /\ calls[i].published}
    /\ (\A i \in CallIds : External(i)) =>
           /\ actionLog["obs"] = ExternalSeen("obs")
           /\ Len(stateLog) = Cardinality({i \in CallIds : ReturnedNew(i)})
    /\ \A j, k \in 1..Len(ExternalEmissions) :
           j < k => ExternalEmissions[j].by < ExternalEmissions[k].by
    /\ \A i \in CallIds :
           External(i) =>
               /\ ReturnedNew(i) => Cardinality(EmissionsBy(i)) = 1
               /\ ~ReturnedNew(i) => EmissionsBy(i) = {}
               /\ \A j \in EmissionsBy(i) : stateLog[j].count = Returned(i).state.count

\* C6 witness: three actions dispatched in a row with no effect involved, two
\* of which produced a new state and one of which was a no-op.
C6_Witness ==
    /\ Len(calls) = 3
    /\ \A i \in CallIds : External(i) /\ calls[i].published
    /\ actionLog["obs"] = <<1, 2, 3>>
    /\ Len(stateLog) = 2
    /\ \E i \in CallIds : ReturnedSame(i)

\* C7 as claimed: every observer of _action$ receives actions in the order in
\* which dispatch was called for them (call numbers are assigned at the call).
C7_ActionsInDispatchOrder ==
    \A n \in ObserverNames : Increasing(actionLog[n])

\* C8 as claimed: _state$ emits in the order in which the producing actions
\* were dispatched.
C8_StatesInDispatchOrder ==
    \A j, k \in 1..Len(stateLog) : j < k => stateLog[j].by < stateLog[k].by

\* Hook and reducer invocations of call i, in order.
HooksOf(i) == SelectSeq(hookLog, LAMBDA h : h.id = i)

Ran(who, ph, i) == [who |-> who, ph |-> ph, id |-> i]

\* C9: with middlewares [A, B] registered in that order, both with before,
\* after and error hooks, a dispatch runs A.before, B.before, the reducer,
\* B.after, A.after; when the reducer throws, B.error runs before A.error.
C9_MiddlewareNesting ==
    middleware = <<Mw("A", "hooks"), Mw("B", "hooks")>> =>
        \A i \in CallIds :
            ~Malformed(i) =>
                HooksOf(i) =
                    IF Returned(i).kind = "throw"
                    THEN <<Ran("A", "before", i), Ran("B", "before", i), Ran("reducer", "run", i),
                           Ran("B", "error", i), Ran("A", "error", i)>>
                    ELSE <<Ran("A", "before", i), Ran("B", "before", i), Ran("reducer", "run", i),
                           Ran("B", "after", i), Ran("A", "after", i)>>

\* C9 witness: through [A, B], one dispatch whose reducer returned and one
\* whose reducer threw.
C9_Witness ==
    /\ middleware = <<Mw("A", "hooks"), Mw("B", "hooks")>>
    /\ \E i, j \in CallIds :
           /\ Reduced(i) /\ Returned(i).kind = "throw" /\ Len(HooksOf(i)) = 5
           /\ Reduced(j) /\ Returned(j).kind = "value" /\ Len(HooksOf(j)) = 5

DispatchedBy(n) == Cardinality({i \in CallIds : calls[i].origin = n})

InFlight(n) == Cardinality({k \in 1..Len(pending) : pending[k].name = n})

\* C10: every action an effect's output stream emits is dispatched exactly
\* once, through every link of the composed middleware chain; and an effect
\* that emits one action per matching trigger has caused one dispatch per
\* published action matching its filter, less the work still in flight or
\* dropped with its subscription.
C10_EffectDispatchesOnce ==
    /\ \A n \in EffectNames :
           /\ emitted[n] = DispatchedBy(n)
           /\ triggers[n] = DispatchedBy(n) + InFlight(n) + cancelled[n]
    /\ \A i \in CallIds :
           calls[i].origin \in EffectNames =>
               \A k \in 1..Len(middleware) :
                   (middleware[k].enabled /\ ~middleware[k].hasFilter
                        /\ middleware[k].before = "void") =>
                       \E j \in 1..Len(hookLog) :
                           hookLog[j] = Ran(middleware[k].name, "before", i)

\* C10 witness: an effect registered through addEffect (subscribed behind the
\* external subscriber) was triggered once and the one action it emitted
\* went through a middleware's before hook.
C10_Witness ==
    \E i \in CallIds, k \in 1..Len(observers) :
        /\ observers[k].kind = "effect"
        /\ \E o \in 1..(k - 1) : observers[o].kind = "observer"
        /\ calls[i].origin = observers[k].name
        /\ triggers[observers[k].name] = 1
        /\ \E j \in 1..Len(hookLog) : hookLog[j].id = i /\ hookLog[j].ph = "before"

\* The reducer threw for call i.
ReducerThrew(i) == Reduced(i) /\ Returned(i).kind = "throw"

\* C16 as claimed: alone in the chain, ErrorMiddleware re-throws the
\* reducer's error by default, and with rethrow: false dispatch returns
\* normally whether or not a recoveryAction is configured.
C16_RethrowOptionDecides ==
    \A i \in CallIds :
        ReducerThrew(i) =>
            /\ middleware = <<Mw("A", "errDefault")>> => calls[i].threw
            /\ middleware = <<Mw("A", "errSwallow")>> => ~calls[i].threw
            /\ middleware = <<Mw("A", "errSwallowRecover")>> => ~calls[i].threw

\* The number of times x occurs in the sequence q.
Occurrences(q, x) == Cardinality({j \in 1..Len(q) : q[j] = x})

\* An error hook returned a recovery action for call i.
Recovered(i) ==
    \E k \in 1..Len(middleware) :
        /\ middleware[k].enabled
        /\ middleware[k].error = "recover"
        /\ ~calls[i].nil
        /\ Occurrences(hookLog, Ran(middleware[k].name, "error", i)) > 0

\* C17: when an error hook substitutes a recovery action for a failed
\* dispatch, dispatch returns normally and the recovery action goes nowhere:
\* the chain's last link was entered once, with the dispatched action; the
\* reducer ran and the action was published at most once; the state is the one
\* the failing reducer was handed and _state$ emitted nothing for the call.
C17_RecoveryOnlySuppresses ==
    \A i \in CallIds :
        Recovered(i) =>
            /\ ~calls[i].threw
            /\ Occurrences(hookLog, Ran("reducer", "run", i)) <= 1
            /\ Occurrences(actionLog["obs"], i) <= 1
            /\ Cardinality({j \in 1..Len(linkLog) :
                   linkLog[j].id = i /\ linkLog[j].link = Len(middleware) + 1}) = 1
            /\ \A j \in 1..Len(linkLog) :
                   (linkLog[j].id = i /\ ~Replacing) => linkLog[j].type = calls[i].type
            /\ Reduced(i) => calls[i].post = calls[i].input
            /\ EmissionsBy(i) = {}

\* C17 witness: ErrorMiddleware({ rethrow: false, recoveryAction }) swallowed
\* a reducer error, its error hook having run for that call.
C17_Witness ==
    \E i \in CallIds, k \in 1..Len(middleware) :
        /\ ReducerThrew(i)
        /\ middleware[k].kind = "errSwallowRecover"
        /\ Recovered(i)
        /\ ~calls[i].threw
        /\ calls[i].outcome = "throw"

\* Middleware k passes the action of link-log entry e through: it is disabled,
\* or its actionFilter does not match the action's type.
Suppressed(k, e) ==
    \/ ~middleware[k].enabled
    \/ middleware[k].hasFilter /\ ~e.nil /\ e.type \notin middleware[k].filter

\* C18: a middleware that is disabled, or whose actionFilter (list or
\* predicate) does not match the action, hands the identical action to the
\* next link at once and runs none of its hooks for that dispatch.
C18_SuppressedPassesThrough ==
    \A j \in 1..Len(linkLog) :
        LET e == linkLog[j]
        IN (e.link <= Len(middleware) /\ Suppressed(e.link, e)) =>
               /\ j < Len(linkLog)
               /\ linkLog[j + 1].link = e.link + 1
               /\ linkLog[j + 1].id = e.id
               /\ linkLog[j + 1].nil = e.nil
               /\ linkLog[j + 1].type = e.type
               /\ \A h \in 1..Len(hookLog) :
                      ~(hookLog[h].who = middleware[e.link].name /\ hookLog[h].id = e.id)

\* C18 witness: a middleware with a predicate filter passed one action through
\* to the reducer untouched and ran its hooks for another.
C18_Witness ==
    \E j \in 1..Len(linkLog), h \in 1..Len(hookLog) :
        LET e == linkLog[j]
        IN /\ e.link <= Len(middleware)
           /\ middleware[e.link].kind = "predicate"
           /\ Suppressed(e.link, e)
           /\ Reduced(e.id)
           /\ hookLog[h].who = middleware[e.link].name
           /\ hookLog[h].id # e.id

\* The links call i arrived at, in order.
LinksOf(i) == SelectSeq(linkLog, LAMBDA e : e.id = i)

Path(i) == [j \in 1..Len(LinksOf(i)) |-> LinksOf(i)[j].who]

\* The last reconfiguration call of one of the kinds ops made before call i
\* (0 when there is none).
LatestEvent(i, ops) ==
    LET S == {e \in 1..Len(reconfig) : reconfig[e].op \in ops /\ reconfig[e].at <= i}
    IN IF S = {} THEN 0 ELSE CHOOSE e \in S : \A f \in S : f <= e

\* q without its first x.
WithoutFirst(q, x) ==
    LET found == {j \in 1..Len(q) : q[j] = x}
    IN IF found = {} THEN q
       ELSE LET index == CHOOSE j \in found : \A k \in found : j <= k
            IN [j \in 1..(Len(q) - 1) |-> IF j < index THEN q[j] ELSE q[j + 1]]

\* Dispatches after addMiddleware(M) traverse the middlewares registered
\* before, then M, then rawDispatch.
AddTakesEffect ==
    \A i \in CallIds :
        LET e == LatestEvent(i, {"addMiddleware", "removeMiddleware"})
        IN (e # 0 /\ reconfig[e].op = "addMiddleware") =>
               Path(i) = Append(reconfig[e].before, reconfig[e].arg) \o <<"rawDispatch">>

\* Dispatches after replaceReducer(r) are reduced by r.
ReplaceTakesEffect ==
    \A i \in CallIds :
        LET e == LatestEvent(i, {"replaceReducer"})
        IN (e # 0 /\ Reduced(i)) => calls[i].reducer = reconfig[e].arg

\* A reconfiguration call leaves the state and both streams as they were:
\* until the next dispatch nothing has changed, and that dispatch starts from
\* the state and the emissions the call found.
ReconfigurationIsSilent ==
    \A e \in 1..Len(reconfig) :
        /\ reconfig[e].at = nextSeq =>
               /\ state = reconfig[e].state
               /\ Len(stateLog) = reconfig[e].emits
               /\ \A n \in ObserverNames : Len(actionLog[n]) = reconfig[e].actions[n]
        /\ reconfig[e].at \in CallIds =>
               /\ calls[reconfig[e].at].pre = reconfig[e].state
               /\ calls[reconfig[e].at].emitsBefore = reconfig[e].emits

\* C19 as claimed: addMiddleware, removeMiddleware and replaceReducer take
\* effect for the next dispatch and change neither the state nor a stream;
\* after removeMiddleware(M) no dispatch invokes M.
C19_RemovedNeverInvoked ==
    /\ AddTakesEffect
    /\ ReplaceTakesEffect
    /\ ReconfigurationIsSilent
    /\ \A i \in CallIds :
           LET e == LatestEvent(i, {"addMiddleware", "removeMiddleware"})
           IN (e # 0 /\ reconfig[e].op = "removeMiddleware") =>
                  \A j \in 1..Len(Path(i)) : Path(i)[j] # reconfig[e].arg

\* C19 amended: addMiddleware, removeMiddleware and replaceReducer take
\* effect for the next dispatch and change neither the state nor a stream;
\* removeMiddleware(M) removes the first registration of M only, so that
\* after it no dispatch invokes M provided M was registered at most once.
C19_ReconfigurationTakesEffect ==
    /\ AddTakesEffect
    /\ ReplaceTakesEffect
    /\ ReconfigurationIsSilent
    /\ \A i \in CallIds :
           LET e == LatestEvent(i, {"addMiddleware", "removeMiddleware"})
           IN (e # 0 /\ reconfig[e].op = "removeMiddleware") =>
                  /\ Path(i) = WithoutFirst(reconfig[e].before, reconfig[e].arg)
                                   \o <<"rawDispatch">>
                  /\ Occurrences(reconfig[e].before, reconfig[e].arg) <= 1 =>
                         \A j \in 1..Len(Path(i)) : Path(i)[j] # reconfig[e].arg

\* C19 witness: a middleware registered at construction was removed and the
\* reducer replaced, and the next INCREMENT bypassed the one and was reduced
\* by the other.
C19_Witness ==
    \E i \in CallIds, e, f \in 1..Len(reconfig) :
        /\ e = LatestEvent(i, {"addMiddleware", "removeMiddleware"})
        /\ reconfig[e].op = "removeMiddleware"
        /\ Occurrences(reconfig[e].before, reconfig[e].arg) = 1
        /\ Path(i) = <<"rawDispatch">>
        /\ f = LatestEvent(i, {"replaceReducer"})
        /\ calls[i].reducer = "newReducer"
        /\ calls[i].post.count = calls[i].pre.count + HotStep

\* C20 as claimed: removeEffect(name) leaves every other effect alone: an
\* effect that removeEffect was never called for has lost none of its
\* asynchronous work in flight.
C20_OtherEffectsUndisturbed ==
    \A n \in EffectNames : n \notin removed => cancelled[n] = 0

\* C11: with an effect that throws when invoked or whose stream errors,
\* neither the constructor nor addEffect throws; dispatch keeps working
\* (every well-formed action is published and reduced, and its new state
\* emitted); and the other effect and the subscriber keep receiving every
\* published action, the effect's emitted actions being dispatched once each.
C11_EffectErrorsIsolated ==
    /\ ~setupThrew
    /\ \A i \in CallIds :
           ~Malformed(i) =>
               /\ calls[i].published /\ Reduced(i)
               /\ Returned(i).kind = "value" => ~calls[i].threw
               /\ ReturnedNew(i) => Cardinality(EmissionsBy(i)) = 1
               /\ \A n \in calls[i].subscribers \cap {"E2", "obs"} :
                      Occurrences(actionLog[n], i) = 1
    /\ emitted["E2"] = DispatchedBy("E2")
    /\ triggers["E2"] = DispatchedBy("E2") + InFlight("E2") + cancelled["E2"]

\* C11 witness: E1's stream has errored and E1 no longer receives actions,
\* while E2 received a later action and dispatched its follow-up.
C11_Witness ==
    \E i, j \in CallIds :
        /\ "E1" \in dead
        /\ "E1" \in calls[i].subscribers
        /\ Occurrences(actionLog["E1"], i) = 0
        /\ Occurrences(actionLog["E2"], i) = 1
        /\ calls[j].origin = "E2"
        /\ j > i

\* ------------------------------------------------------------------------
\* Signals
\* ------------------------------------------------------------------------
\* The select calls made with an explicit key.
Keyed == {i \in 1..Len(selects) : selects[i].key # ""}

\* C12: within one lifetime of the Store, every select call with the same
\* explicit key returns the identical handle (whatever selector it is given),
\* the signal behind a key is built at most once, and distinct keys have
\* distinct handles.
C12_OneSignalPerKey ==
    /\ \A i \in Keyed, j \in Keyed :
           selects[i].life = selects[j].life =>
               (selects[i].key = selects[j].key <=> selects[i].handle = selects[j].handle)
    /\ \A i \in Keyed : selects[i].handle \in 1..Len(signalValue)
    /\ \A k \in CacheKeys :
           Cardinality({selects[i].handle : i \in {n \in 1..Len(selects) :
               /\ cacheKeyOf(selects[n].key, selects[n].selector) = k
               /\ selects[n].life = Len(destroys)}}) <= 1

\* Two select calls with the same explicit key and different selectors, with
\* a state change between them, returned the same handle.
C12_Witness ==
    \E i \in Keyed, j \in Keyed :
        /\ i < j
        /\ selects[i].key = selects[j].key
        /\ selects[i].selector # selects[j].selector
        /\ selects[i].life = selects[j].life
        /\ selects[i].handle = selects[j].handle
        /\ signalValue[selects[i].handle].value # Defined(initialState.count)

\* The handles in the cache.
Cached == {signalCache[k] : k \in {c \in CacheKeys : signalCache[c] # 0}}

\* C13: between calls, while the Store is alive, every cached signal holds
\* its selector applied to the current state, also after dispatches made
\* from inside effects and state-stream subscribers.
C13_SignalsFollowState ==
    ~Destroyed =>
        \A h \in Cached :
            signalValue[h].value = Defined(Project(signalValue[h].selector, state))

\* The first destroy call left no observer on either stream, no effect work
\* in flight and an empty signal cache; since then no observer has been
\* notified of an action or a state, no signal has been written, and nothing
\* but application code has dispatched.
DestroyIsComplete ==
    LET first == destroys[1]
    IN /\ observers = <<>>
       /\ stateObservers = <<>>
       /\ pending = <<>>
       /\ first.cached = {}
       /\ actionLog = first.actions
       /\ Len(stateLog) = first.emits
       /\ \A h \in 1..Len(first.values) : signalValue[h] = first.values[h]
       /\ \A i \in CallIds : i > first.calls => calls[i].origin = "ext"

HeldBack == {i \in 1..Len(debounceLog) : debounceLog[i].ev = "held"}

\* The times the action held back at debounceLog[i] was forwarded.
ForwardsOf(i) ==
    {k \in 1..Len(debounceLog) :
        debounceLog[k].ev = "forwarded" /\ debounceLog[k].id = debounceLog[i].id}

\* A later action of the same type reached the debounce middleware before
\* the one held back at debounceLog[i] was forwarded.
Superseded(i) ==
    \E j \in HeldBack :
        /\ j > i
        /\ debounceLog[j].type = debounceLog[i].type
        /\ \A k \in ForwardsOf(i) : k > j

\* The link behind the debounce middleware.
NextLink == 1 + CHOOSE i \in 1..Len(middleware) : middleware[i].kind = "debounce"

\* The arrivals of call id at the link behind the debounce middleware.
Arrivals(id) ==
    {n \in 1..Len(linkLog) : linkLog[n].id = id /\ linkLog[n].link = NextLink}

\* C15: an action held back by the debounce middleware is forwarded to the
\* next link at most once, unchanged, and not before the interval has
\* elapsed after it; it is never forwarded once a later action of its type
\* has arrived before that; and the latest action of a type stays armed
\* until it is forwarded.
C15_OnlyTheLastOfABurst ==
    /\ \A i \in HeldBack :
           LET e == debounceLog[i]
           IN /\ Cardinality(ForwardsOf(i)) <= 1
              /\ Superseded(i) => ForwardsOf(i) = {}
              /\ \A k \in ForwardsOf(i) : k > i /\ debounceLog[k].at >= e.at + Interval
              /\ (~Superseded(i) /\ ForwardsOf(i) = {}) =>
                     /\ debounceMap[e.type] = e.id
                     /\ \E n \in 1..Len(timers) :
                            timers[n].id = e.id /\ timers[n].deadline = e.at + Interval
              /\ Cardinality(Arrivals(e.id)) = Cardinality(ForwardsOf(i))
              /\ \A n \in Arrivals(e.id) : linkLog[n].type = e.type /\ ~linkLog[n].nil
    /\ \A k \in 1..Len(debounceLog) :
           debounceLog[k].ev = "forwarded" =>
               \E i \in HeldBack : i < k /\ debounceLog[i].id = debounceLog[k].id

\* Three actions of one type, each within the interval of the one before;
\* the third was forwarded and reduced, the first two never.
C15_Witness ==
    \E i \in HeldBack, j \in HeldBack, l \in HeldBack :
        /\ i < j /\ j < l
        /\ debounceLog[i].type = debounceLog[j].type
        /\ debounceLog[j].type = debounceLog[l].type
        /\ debounceLog[i].at < debounceLog[j].at
        /\ debounceLog[j].at < debounceLog[i].at + Interval
        /\ debounceLog[j].at < debounceLog[l].at
        /\ debounceLog[l].at < debounceLog[j].at + Interval
        /\ ForwardsOf(i) = {} /\ ForwardsOf(j) = {}
        /\ ForwardsOf(l) # {}
        /\ Reduced(debounceLog[l].id)
        /\ ~Reduced(debounceLog[i].id) /\ ~Reduced(debounceLog[j].id)

\* ------------------------------------------------------------------------
\* The Effect manager
\* ------------------------------------------------------------------------
\* C21: while the manager is running, every registered, enabled effect is
\* subscribed to the streams start was called with, whether it was
\* registered before start or after it.
C21_RegisteredWhileRunningIsSubscribed ==
    manager.isRunning =>
        \A i \in 1..Len(manager.effects) :
            manager.effects[i].enabled =>
                \E k \in 1..Len(manager.subscriptions) :
                    /\ manager.subscriptions[k].name = manager.effects[i].name
                    /\ manager.subscriptions[k].streams = manager.started

\* C22: every action that the output of a started effect emitted has been
\* handed to the Store's dispatch.
C22_EmittedActionsDispatched ==
    manager.dispatched = manager.produced

\* ------------------------------------------------------------------------
\* Disabled effects
\* ------------------------------------------------------------------------
\* The effects registered with enabled: false.
DisabledNames == {effects[i].name : i \in {k \in 1..Len(effects) : ~effects[k].enabled}}

\* C23: an effect registered with enabled: false is not subscribed to the
\* action stream, has no work in flight, and no dispatch call comes from it.
C23_DisabledNeverSubscribed ==
    \A n \in DisabledNames :
        /\ \A k \in 1..Len(observers) : observers[k].name # n
        /\ \A k \in 1..Len(pending) : pending[k].name # n
        /\ (\A i \in 1..Len(effects) : effects[i].name = n => ~effects[i].enabled) =>
               \A i \in CallIds : calls[i].origin # n \/ n \in removed

\* ------------------------------------------------------------------------
\* Strategies of asynchronous effects
\* ------------------------------------------------------------------------
StrategyOf(n) ==
    LET at == {i \in 1..Len(effects) : effects[i].name = n}
    IN IF at = {} THEN "" ELSE effects[CHOOSE i \in at : TRUE].strategy

\* positions of workLog about the work that the trigger b began for effect n
WorkAt(ev, n, b) ==
    {i \in 1..Len(workLog) : workLog[i] = Work(ev, n, b)}

\* the origins of the store's dispatch calls, in order
Dispatched(n) == Cardinality({i \in 1..Len(calls) : calls[i].origin = n})

\* C24: under the switch strategy a trigger that arrives while the work of an
\* earlier trigger is unresolved cancels that work: the earlier work never
\* emits, the effect has at most one work in flight, every emission comes from
\* the latest trigger, and every emission is dispatched.
C24_SwitchKeepsOnlyTheLatest ==
    \A n \in EffectNames :
        StrategyOf(n) = "switch" =>
            /\ InFlight(n) <= 1
            /\ Dispatched(n) = Cardinality({i \in 1..Len(workLog) :
                                   workLog[i].ev = "emitted" /\ workLog[i].name = n})
            /\ \A i \in 1..Len(workLog) :
                  /\ (workLog[i].ev = "started" /\ workLog[i].name = n) =>
                        \A j \in 1..(i - 1) :
                            (workLog[j].ev = "started" /\ workLog[j].name = n) =>
                                \/ \E c \in (j + 1)..(i - 1) :
                                        workLog[c] = Work("completed", n, workLog[j].by)
                                \/ /\ \E c \in (j + 1)..(i - 1) :
                                        workLog[c] = Work("cancelled", n, workLog[j].by)
                                   /\ WorkAt("emitted", n, workLog[j].by) = {}
                  /\ (workLog[i].ev = "emitted" /\ workLog[i].name = n) =>
                        \A j \in 1..(i - 1) :
                            (workLog[j].ev = "started" /\ workLog[j].name = n) =>
                                workLog[j].by <= workLog[i].by

\* A second trigger arrived while the first one's work was unresolved, and
\* the second one's result has been emitted and dispatched.
C24_Witness ==
    \E n \in EffectNames : \E b1, b2 \in 1..(MaxCalls + MaxCalls) :
        /\ StrategyOf(n) = "switch"
        /\ b1 < b2
        /\ WorkAt("cancelled", n, b1) # {}
        /\ WorkAt("emitted", n, b1) = {}
        /\ WorkAt("emitted", n, b2) # {}
        /\ Dispatched(n) = 1

\* the action type the effect n passes through ofType
TriggerOf(n) ==
    LET at == {i \in 1..Len(effects) : effects[i].name = n}
    IN IF at = {} THEN "" ELSE effects[CHOOSE i \in at : TRUE].trigger

\* ids of the actions the effect n received on the action stream and that
\* passed its ofType
TriggerIds(n) ==
    {actionLog[n][k] : k \in {j \in 1..Len(actionLog[n]) :
                                 calls[actionLog[n][j]].type = TriggerOf(n)}}

\* C25: under the concat strategy the work of a trigger starts only when the
\* work of every earlier trigger has completed, work starts in the order the
\* triggers arrived, and every trigger's work has started or is waiting.
C25_ConcatInArrivalOrder ==
    \A n \in EffectNames :
        StrategyOf(n) = "concat" =>
            /\ \A i \in 1..Len(workLog) :
                  (workLog[i].ev = "started" /\ workLog[i].name = n) =>
                      \A b \in TriggerIds(n) :
                          b < workLog[i].by =>
                              \E c \in 1..(i - 1) : workLog[c] = Work("completed", n, b)
            /\ \A b \in TriggerIds(n) :
                  \/ WorkAt("completed", n, b) # {}
                  \/ \E p \in 1..Len(pending) : pending[p].name = n /\ pending[p].by = b
            /\ \A p, q \in 1..Len(pending) :
                  (pending[p].name = n /\ pending[q].name = n /\ p < q) =>
                      /\ pending[p].by < pending[q].by
                      /\ ~pending[q].started

\* A trigger waited for the work of the one before it, and started when that
\* work had completed.
C25_Witness ==
    \E n \in EffectNames : \E b1, b2 \in 1..(MaxCalls + MaxCalls) :
        /\ StrategyOf(n) = "concat"
        /\ b1 < b2
        /\ WorkAt("queued", n, b2) # {}
        /\ \E c \in WorkAt("completed", n, b1) : \E s \in WorkAt("started", n, b2) : c < s

\* ------------------------------------------------------------------------
\* Reducer composition
\* ------------------------------------------------------------------------
\* C26: a combined reducer applied to a defined state returns a different
\* tree exactly when some branch reducer returned a value other than its
\* input, and a branch whose reducer returned its input is the same in the
\* result.
C26_TreeChangesWithItsBranches ==
    \A i \in 1..Len(rootLog) :
        LET e == rootLog[i]
        IN (e.input.defined /\ ~e.threw) =>
              /\ (e.result.ref # e.input.ref) <=>
                     (\E k \in e.keys : e.returned[k] # e.input.branches[k])
              /\ \A k \in e.keys :
                     e.returned[k] = e.input.branches[k] =>
                         e.result.branches[k] = e.input.branches[k]
              /\ \A k \in Keys \ e.keys : e.result.branches[k] = e.input.branches[k]

\* One branch reducer returned a new object and the other returned its
\* input: the tree is a new one and holds the other branch as it was.
C26_Witness ==
    \E i \in 1..Len(rootLog) :
        LET e == rootLog[i]
        IN /\ e.keys = Keys
           /\ e.result.ref # e.input.ref
           /\ \E k \in Keys : /\ e.returned[k] = e.input.branches[k]
                              /\ e.input.branches[k].kind = "object"
                              /\ e.result.branches[k] = e.input.branches[k]
           /\ \E k \in Keys : e.returned[k] # e.input.branches[k]

\* ------------------------------------------------------------------------
\* The Store builder
\* ------------------------------------------------------------------------
\* The three configurations build must refuse.
NoReducers(b) == b.keys = {}
NotCallable(b) ==
    \/ \E k \in b.keys : ~b.reducers[k].callable
    \/ \E i \in 1..Len(b.middleware) : ~b.middleware[i].callable
NoInitialValue(b) == \E k \in b.keys : b.reducers[k].callable /\ b.reducers[k].init = "undefined"

\* C27: build throws, constructs no Store and starts no effect when no
\* reducer is registered, when a registered reducer or middleware is not a
\* function, or when a branch reducer returns undefined for the undefined
\* state.
C27_BuildRefusesBadConfiguration ==
    \A i \in 1..Len(builds) :
        (NoReducers(builds[i]) \/ NotCallable(builds[i]) \/ NoInitialValue(builds[i])) =>
            /\ builds[i].threw
            /\ builds[i].errors # {}
            /\ ~builds[i].store
            /\ builds[i].started = {}

\* build was called on a builder with a reducer, an effect and a middleware
\* that is not a function: it threw and no effect was started.
C27_Witness ==
    \E i \in 1..Len(builds) :
        /\ builds[i].keys # {}
        /\ \A k \in builds[i].keys : builds[i].reducers[k].callable
        /\ \E m \in 1..Len(builds[i].middleware) : ~builds[i].middleware[m].callable
        /\ builds[i].effects # <<>>
        /\ builds[i].threw
        /\ builds[i].started = {}

\* ------------------------------------------------------------------------
\* Signals in different runtimes
\* ------------------------------------------------------------------------
\* The runtime has no pull primitive: it is a server, or solid-js is missing.
NoPullSupport == runtime.environment = "node" \/ runtime.solid = "missing"

\* selectors whose selectState stream has a subscriber
Streaming ==
    {stateObservers[i].selector :
        i \in {j \in 1..Len(stateObservers) : stateObservers[j].kind = "stream"}}

\* where in streamLog the present subscription of selector f began
StreamStart(f) ==
    CHOOSE i \in 1..Len(streamLog) :
        /\ streamLog[i].selector = f /\ streamLog[i].first
        /\ \A j \in (i + 1)..Len(streamLog) :
              ~(streamLog[j].selector = f /\ streamLog[j].first)

\* the count of the state before the emission j of the state stream
CountBefore(j) == IF j = 1 THEN initialState ELSE stateLog[j - 1]

\* C28: without a pull primitive select and selectMemo return null on every
\* call, cache nothing and subscribe nothing, and a selectState stream gives
\* its subscriber the selector's value of the current state and of every
\* later state that changes the value.
C28_NullSignalsButLiveStreams ==
    NoPullSupport =>
        /\ \A i \in 1..Len(selects) :
              selects[i].handle = 0 /\ ~selects[i].cached /\ selects[i].subscribed = 0
        /\ \A k \in CacheKeys : signalCache[k] = 0
        /\ \A i \in 1..Len(stateObservers) : stateObservers[i].kind \notin {"signal", "initial"}
        /\ \A f \in Streaming :
              /\ LastSeen(World, f) = Defined(Project(f, state))
              /\ LET b == StreamStart(f)
                 IN \A j \in (streamLog[b].at + 1)..Len(stateLog) :
                        (Project(f, stateLog[j]) # Project(f, CountBefore(j)))
                            <=> \E e \in (b + 1)..Len(streamLog) :
                                    /\ streamLog[e].selector = f
                                    /\ streamLog[e].at = j
                                    /\ streamLog[e].value = Defined(Project(f, stateLog[j]))

\* On a server a select returned null and a selectState subscriber has been
\* given a changed value.
C28_Witness ==
    /\ runtime.environment = "node"
    /\ \E i \in 1..Len(selects) : selects[i].handle = 0
    /\ \E e \in 1..Len(streamLog) : ~streamLog[e].first

\* C29: with enableSignals: false, select and selectMemo return null and
\* create no projection.
C29_DisabledSignalsAreNull ==
    ~runtime.enableSignals =>
        /\ \A i \in 1..Len(selects) : selects[i].handle = 0 /\ ~selects[i].cached
        /\ \A k \in CacheKeys : signalCache[k] = 0

\* C30: a select whose construction of the signal failed returned null and
\* left no cache entry, and no dispatch threw or lost its emission.
C30_FailuresSurfaceAsNull ==
    /\ \A i \in 1..Len(selects) :
          selects[i].failed => selects[i].handle = 0 /\ ~selects[i].cached
    /\ \A c \in 1..Len(calls) :
          /\ ~calls[c].threw
          /\ calls[c].outcome = "new" => calls[c].emitsAfter > calls[c].emitsBefore

\* ------------------------------------------------------------------------
\* Signals after destroy
\* ------------------------------------------------------------------------
\* C31: once destroy has been called the projector holds no subscription to
\* the state stream and no cache entry, whatever is called afterwards.
C31_NothingOutlivesDestroy ==
    Destroyed =>
        /\ \A k \in CacheKeys : signalCache[k] = 0
        /\ \A i \in 1..Len(stateObservers) :
              stateObservers[i].kind \notin {"signal", "initial"}

\* C32: a signal over a selector whose result is a function never holds a
\* function and is never written: it keeps the value it had.
C32_FunctionsAreNotWritten ==
    \A h \in 1..Len(signalValue) :
        ReturnsFunction(signalValue[h].selector) =>
            /\ ~signalValue[h].fn
            /\ ~signalValue[h].invoked

\* ------------------------------------------------------------------------
\* Effect names
\* ------------------------------------------------------------------------
\* C33: in a Store that build constructed, no two registered effects and no
\* two running effects have the same name.
C33_EffectNamesUnique ==
    \A i \in 1..Len(builds) :
        builds[i].store =>
            /\ \A a, b \in 1..Len(builds[i].effects) :
                  a # b => builds[i].effects[a].name # builds[i].effects[b].name
            /\ \A a, b \in 1..Len(builds[i].running) :
                  a # b => builds[i].running[a] # builds[i].running[b]

\* ------------------------------------------------------------------------
\* Action creators
\* ------------------------------------------------------------------------
\* b is the action the creator of a made next
NextBySameCreator(i, j) ==
    /\ i < j
    /\ created[i].creator = created[j].creator
    /\ \A k \in (i + 1)..(j - 1) : created[k].creator # created[i].creator

\* C34: of two actions one creator made one after the other, the later has
\* the greater (timestamp, id).
C34_PairsIncrease ==
    \A i, j \in 1..Len(created) :
        NextBySameCreator(i, j) => PairLess(created[i], created[j])

\* ------------------------------------------------------------------------
\* Re-entrant dispatch
\* ------------------------------------------------------------------------
\* ids of the actions the reducer was invoked with, in the order it ran
Reductions ==
    LET runs == SelectSeq(hookLog, LAMBDA e : e.who = "reducer" /\ e.ph = "run")
    IN [k \in 1..Len(runs) |-> runs[k].id]

\* the state the reduction of the action id left: the state it emitted, or
\* the state it was given when the reducer returned that state, returned
\* undefined or threw
Reduction(id) ==
    IF calls[id].outcome = "new"
    THEN LET e == stateLog[CHOOSE i \in 1..Len(stateLog) : stateLog[i].by = id]
         IN [ref |-> e.ref, count |-> e.count]
    ELSE calls[id].input

\* what the reducer makes of the state s and an action of the type t
Folded(s, t) ==
    LET r == reducer(s, [type |-> t], s.ref)
    IN IF r.kind = "value" THEN r.state.count ELSE s.count

C36_OneEntryPerSelector ==
    \A i, j \in 1..Len(selects) :
        (/\ selects[i].key = "" /\ selects[j].key = ""
         /\ ~selects[i].memo /\ ~selects[j].memo
         /\ selects[i].life = selects[j].life)
            => (selects[i].handle = selects[j].handle
                    <=> selects[i].selector = selects[j].selector)

\* ------------------------------------------------------------------------
\* Handlers that throw inside a reducer built with createReducer
\* ------------------------------------------------------------------------
\* a dispatch whose action reached a createReducer-built reducer and whose
\* handler throws
ThrewInHandler(c) ==
    /\ calls[c].reducer = "createdReducer"
    /\ calls[c].published
    /\ calls[c].ptype \in ThrowingHandlers

\* C37: when the handler of the dispatched action throws inside a reducer
\* built with createReducer, the reducer returns the state it was handed, by
\* reference: the dispatch returns normally, the Store's state is the one it
\* had, and the state stream emits nothing for that dispatch.
C37_HandlerErrorsLeaveTheState ==
    \A c \in 1..Len(calls) :
        ThrewInHandler(c) =>
            /\ ~calls[c].threw
            /\ calls[c].outcome = "same"
            /\ calls[c].post = calls[c].input
            /\ calls[c].emitsAfter = calls[c].emitsBefore
            /\ \A i \in 1..Len(stateLog) : stateLog[i].by # c

\* Both throwing handlers ran on a state that an earlier dispatch had made,
\* with a subscriber on the state stream.
C37_Witness ==
    /\ stateObservers # <<>>
    /\ \E c, d \in 1..Len(calls) :
          /\ ThrewInHandler(c) /\ calls[c].ptype = "FAULTY"
          /\ ThrewInHandler(d) /\ calls[d].ptype = "SET_COUNTER"
          /\ calls[c].input # initialState
          /\ state = calls[c].input

\* ------------------------------------------------------------------------
\* Stores of one builder
\* ------------------------------------------------------------------------
\* C38: a call of addMiddleware, removeMiddleware, addEffect or removeEffect
\* on a built Store leaves the builder's middleware and effect lists as they
\* were, and leaves the lists and the running effects of every other Store
\* built from that builder as they were.
C38_StoresAreIndependent ==
    \A k \in 1..Len(edits) :
        edits[k].who # 0 =>
            /\ edits[k].after.builder = edits[k].before.builder
            /\ \A j \in 1..Len(edits[k].before.stores) :
                  j # edits[k].who =>
                      /\ edits[k].after.stores[j].middleware
                            = edits[k].before.stores[j].middleware
                      /\ edits[k].after.stores[j].effects = edits[k].before.stores[j].effects
                      /\ edits[k].after.stores[j].running = edits[k].before.stores[j].running

\* ------------------------------------------------------------------------
\* Middleware that throws when given the store API
\* ------------------------------------------------------------------------
\* the first dispatch made after the last addMiddleware or removeMiddleware
SinceSetup == IF reconfig = <<>> THEN 1 ELSE reconfig[Len(reconfig)].at

\* the dispatch c went to rawDispatch directly: no middleware link was
\* entered and no hook ran
WentRaw(c) ==
    /\ \A i \in 1..Len(linkLog) :
          linkLog[i].id = c => linkLog[i].who = "rawDispatch"
    /\ \A i \in 1..Len(hookLog) :
          hookLog[i].id = c => hookLog[i].who = "reducer"
    /\ IF calls[c].nil
       THEN calls[c].threw /\ calls[c].outcome = "invalid" /\ ~calls[c].published
       ELSE calls[c].published /\ calls[c].ptype = calls[c].type
            /\ calls[c].outcome \in {"new", "same", "throw", "undefined"}

Resubscriptions ==
    {i \in 2..Len(retry.log) : retry.log[i].ev = "subscribe"}

\* C40: a stream of retryWithDelay(count, delayMs) over a source that keeps
\* failing ends with the error 'Max retries exceeded', after the source has
\* been subscribed again count times, each time delayMs after the failure
\* before it.
C40_RetriesCountTimes ==
    retry.outcome \notin {"none", "open"} =>
        /\ retry.outcome = "error"
        /\ Cardinality(Resubscriptions) = retry.count
        /\ \A i \in Resubscriptions :
              /\ retry.log[i - 1].ev = "failure"
              /\ retry.log[i].at = retry.log[i - 1].at + retry.delayMs

====
